---------------------------- MODULE Spec2Model ----------------------------
(***************************************************************************)
(* Model of the program mapper of the encrypted-computing SDK: the graph   *)
(* optimizer (duplicate-input separation, layer peel linearization), the   *)
(* kernel cache and the kernel id / rename counters.                       *)
(***************************************************************************)
EXTENDS Integers, Sequences, FiniteSets, TLC

(***************************************************************************)
(* Bounds of the model.                                                    *)
(***************************************************************************)
\* longest combined instruction list handed to the graph optimizer
MaxInstrs == 2
\* trailing empty layers the model records for a peel loop that makes no
\* progress (the loop itself is not bounded, see LayerPeel)
MaxEmptyLayers == 2

\* longest program trace (number of PolyOperations) of a mapper run
MaxOps == 2
\* number of mapper runs in one process
MaxRuns == 2
\* number of processes that share one cache directory
MaxCallers == 2

\* PISAGraphOptimizer::unique_counter as constructed
InitialUniqueCounter == 1

\* register names of the combined instruction list; the two- and three-input
\* instructions read the registers of InRegs
Regs == {"a", "b", "c"}
InRegs == {"a", "b"}

VARIABLES
    \* ---- graph optimizer run (program_mapper.cpp:65-73) ----
    pc,                     \* position in generatePisaProgramFromHEProgam
    fixed_order,            \* argument of generateInstructionStreamFromGraph
    combined_instructions,  \* the instruction list (pointers are list values)
    p_isa_graph,            \* the list the graph was created from; node id = index
    consumable,             \* node ids left in instruction_graph_consumable
    input_layers,           \* peeled layers, each a sequence of node ids
    instructions,           \* returned stream, a sequence of node ids
    \* ---- mapper runs of one process (program_mapper.cpp:8-163) ----
    global_kernel_id_counter, \* pisakernel.cpp:24, process-wide
    cache_files,            \* the cache directory: file path -> content state
    program_trace,          \* the PolyProgram's operations
    arguments,              \* use_kernel_cache, remove_cache, apply_name_spacing
    run,                    \* number of the current run
    mpc,                    \* position in generatePisaProgramFromHEProgam
    p_isa_kernels,          \* kernels created so far in this run
    outputs,                \* per finished run: exit code and emitted stream
    kernel_id_start,        \* per run: the kernel id counter when it started
    gen_count,              \* per file path and run: generator invocations
    last_request,           \* what the most recent create_new did
    \* ---- processes sharing the cache directory (pisakernel.cpp:113-137) ----
    callers,                \* per process: position in create_new, op, file read
    generator_runs          \* per file path: generator invocations so far

optVars == <<pc, fixed_order, combined_instructions, p_isa_graph, consumable,
             input_layers, instructions>>

mapVars == <<global_kernel_id_counter, cache_files, program_trace, arguments, run,
             mpc, p_isa_kernels, outputs, kernel_id_start, gen_count, last_request>>

concVars == <<callers, generator_runs>>


(***************************************************************************)
(* P-ISA instructions: opcode name, output operands, input operands (the   *)
(* operand's location() string).                                           *)
(***************************************************************************)
Instr(n, o, i) == [name |-> n, outs |-> o, ins |-> i]

AllInstrs ==
    {Instr("copy", <<o>>, <<x>>) : o \in Regs, x \in Regs}
    \cup {Instr("add", <<o>>, <<x, y>>) : o \in Regs, x \in InRegs, y \in InRegs}
    \cup {Instr("mac", <<o>>, <<x, y, z>>) : o \in InRegs, x \in InRegs, y \in InRegs, z \in InRegs}

RECURSIVE SeqsUpTo(_, _)
SeqsUpTo(S, n) ==
    IF n = 0 THEN {<<>>}
    ELSE LET shorter == SeqsUpTo(S, n - 1)
         IN  shorter \cup {Append(s, e) : s \in {t \in shorter : Len(t) = n - 1}, e \in S}

numInputOperands(instr) == Len(instr.ins)

(***************************************************************************)
(* PISAGraphOptimizer::applyDuplicateInputVariableSeparation               *)
(***************************************************************************)
\* match flag of one instruction (lines 112-146)
DuplicateMatch(instr) ==
    IF numInputOperands(instr) = 2 THEN instr.ins[1] = instr.ins[2]
    ELSE IF numInputOperands(instr) = 3
         THEN \/ instr.ins[1] = instr.ins[2]
              \/ instr.ins[1] = instr.ins[3]
              \/ instr.ins[2] = instr.ins[3]
         ELSE FALSE

\* matching_indices.second, 1-based: the value-initialised pair (0, 0) for two
\* inputs; for three inputs the last of the three tests that matched.
MatchingSecond(instr) ==
    IF numInputOperands(instr) = 3
    THEN IF instr.ins[2] = instr.ins[3] THEN 3
         ELSE IF instr.ins[1] = instr.ins[3] THEN 3
         ELSE 2
    ELSE 1

\* the instructions pushed to newOrder for one instruction (lines 147-164)
SeparateInstruction(instr) ==
    IF ~DuplicateMatch(instr) THEN <<instr>>
    ELSE LET k      == MatchingSecond(instr)
             loc    == instr.ins[k]
             newloc == "copyA" \o loc
         IN  << Instr("copy", <<newloc>>, <<loc>>),
                [instr EXCEPT !.ins[k] = newloc] >>

RECURSIVE applyDuplicateInputVariableSeparation(_)
applyDuplicateInputVariableSeparation(instr_order) ==
    IF instr_order = <<>> THEN <<>>
    ELSE SeparateInstruction(Head(instr_order))
         \o applyDuplicateInputVariableSeparation(Tail(instr_order))

(***************************************************************************)
(* Graph over an instruction list: producer -> variable -> consumer, the   *)
(* variable nodes keyed by label. With the variable nodes removed and      *)
(* their connections kept, operation i points to operation j when j reads  *)
(* a register that i writes.                                               *)
(***************************************************************************)
Range(s) == {s[i] : i \in DOMAIN s}

OpEdge(g, i, j) == Range(g[i].outs) \cap Range(g[j].ins) # {}

\* getInputNodes() of the operation-only graph restricted to the nodes left
InputNodes(g, nodes) == {j \in nodes : \A i \in nodes : ~OpEdge(g, i, j)}

RECURSIVE SetToSortedSeq(_)
SetToSortedSeq(S) ==
    IF S = {} THEN <<>>
    ELSE LET m == CHOOSE x \in S : \A y \in S : x <= y
         IN  <<m>> \o SetToSortedSeq(S \ {m})

RECURSIVE ReachableIn(_, _, _, _)
\* j is reached from i by a path of 1..n edges
ReachableIn(g, i, j, n) ==
    IF n = 0 THEN FALSE
    ELSE \/ OpEdge(g, i, j)
         \/ \E k \in DOMAIN g : OpEdge(g, i, k) /\ ReachableIn(g, k, j, n - 1)

Cyclic(g) == \E i \in DOMAIN g : ReachableIn(g, i, i, Len(g))

(***************************************************************************)
(* PISAGraphOptimizer::generateInstructionStreamFromGraph                  *)
(***************************************************************************)
\* (mutant) a peel that takes every node left, whatever its in-degree
PeelLayerAllNodes(g, nodes) == SetToSortedSeq(nodes)

\* one layer of the peel: the current input nodes in insertion order
PeelLayer(g, nodes) == SetToSortedSeq(InputNodes(g, nodes))

RECURSIVE Flatten(_)
Flatten(layers) ==
    IF layers = <<>> THEN <<>> ELSE Head(layers) \o Flatten(Tail(layers))

RECURSIVE TrailingEmpty(_)
\* length of the run of empty layers at the end of the vector
TrailingEmpty(layers) ==
    IF layers = <<>> \/ layers[Len(layers)] # <<>> THEN 0
    ELSE 1 + TrailingEmpty(SubSeq(layers, 1, Len(layers) - 1))

\* push_back of a layer. The vector grows without bound when the loop makes
\* no progress; the model keeps the length of a trailing run of empty layers
\* modulo MaxEmptyLayers (1, 2, .., MaxEmptyLayers, 1, ..).
PushLayer(layers, layer) ==
    IF layer = <<>> /\ TrailingEmpty(layers) >= MaxEmptyLayers
    THEN SubSeq(layers, 1, Len(layers) - MaxEmptyLayers + 1)
    ELSE Append(layers, layer)

(***************************************************************************)
(* PISAGraphOptimizer::nodeInstructionAdjustment. The graph keeps one      *)
(* variable node per operand, labelled with the operand's location and     *)
(* typed IMMEDIATE for an immediate; GetInNId(x) / GetOutNId(x) of an      *)
(* instruction node are its input / output variables in graph order.       *)
(***************************************************************************)
Immediates == {"imm"}

\* the labels of the in-neighbours and of the out-neighbours of a node
InNodeLabels(instr) == instr.ins

OutNodeLabels(instr) == instr.outs

\* the runtime_error of a MAC without accumulator, in place of an instruction
InvalidMac == Instr("runtime_error", <<>>, <<>>)

\* (mutant) a MAC whose accumulator is the last input gets the other two
\* inputs in reverse order
nodeInstructionAdjustmentReversed(instr) ==
    LET in  == InNodeLabels(instr)
        out == OutNodeLabels(instr)
    IN  IF instr.name = "muli"
        THEN IF in[1] \in Immediates
             THEN Instr(instr.name, out, <<in[2], in[1]>>)
             ELSE Instr(instr.name, out, <<in[1], in[2]>>)
        ELSE IF instr.name = "mac"
        THEN IF out[1] = in[1] THEN Instr(instr.name, out, <<in[1], in[2], in[3]>>)
             ELSE IF out[1] = in[2] THEN Instr(instr.name, out, <<in[2], in[1], in[3]>>)
             ELSE IF out[1] = in[3] THEN Instr(instr.name, out, <<in[3], in[2], in[1]>>)
             ELSE InvalidMac
        ELSE Instr(instr.name, out, in)

nodeInstructionAdjustment(instr) ==
    LET in  == InNodeLabels(instr)
        out == OutNodeLabels(instr)
    IN  IF instr.name = "muli"
        THEN IF in[1] \in Immediates
             THEN Instr(instr.name, out, <<in[2], in[1]>>)
             ELSE Instr(instr.name, out, <<in[1], in[2]>>)
        ELSE IF instr.name = "mac"
        THEN IF out[1] = in[1] THEN Instr(instr.name, out, <<in[1], in[2], in[3]>>)
             ELSE IF out[1] = in[2] THEN Instr(instr.name, out, <<in[2], in[1], in[3]>>)
             ELSE IF out[1] = in[3] THEN Instr(instr.name, out, <<in[3], in[1], in[2]>>)
             ELSE InvalidMac
        ELSE Instr(instr.name, out, in)

\* (mutant) a fixed-order return that runs the adjustment on every node
ReturnFixedOrderAdjusted ==
    /\ pc = "graph"
    /\ fixed_order
    /\ instructions' = [i \in 1..Len(p_isa_graph) |-> i]
    /\ p_isa_graph' = [i \in 1..Len(p_isa_graph) |-> nodeInstructionAdjustment(p_isa_graph[i])]
    /\ pc' = "done"
    /\ UNCHANGED <<fixed_order, combined_instructions, consumable, input_layers>>

(***************************************************************************)
(* The run of the optimizer in generatePisaProgramFromHEProgam.            *)
(***************************************************************************)
OptInit ==
    /\ pc = "combined"
    /\ fixed_order \in BOOLEAN
    /\ combined_instructions \in SeqsUpTo(AllInstrs, MaxInstrs)
    /\ p_isa_graph = <<>>
    /\ consumable = {}
    /\ input_layers = <<>>
    /\ instructions = <<>>

\* program_mapper.cpp:69
ApplySeparation ==
    /\ pc = "combined"
    /\ combined_instructions' = applyDuplicateInputVariableSeparation(combined_instructions)
    /\ pc' = "separated"
    /\ UNCHANGED <<fixed_order, p_isa_graph, consumable, input_layers, instructions>>

\* program_mapper.cpp:72
CreateGraph ==
    /\ pc = "separated"
    /\ p_isa_graph' = combined_instructions
    /\ pc' = "graph"
    /\ UNCHANGED <<fixed_order, combined_instructions, consumable, input_layers, instructions>>

\* generateInstructionStreamFromGraph, fixed_order: return instr_order
ReturnFixedOrder ==
    /\ pc = "graph"
    /\ fixed_order
    /\ instructions' = [i \in 1..Len(p_isa_graph) |-> i]
    /\ pc' = "done"
    /\ UNCHANGED <<fixed_order, combined_instructions, p_isa_graph, consumable, input_layers>>

\* lines 14-25: clone, drop the non-operation nodes, clone again
StartPeel ==
    /\ pc = "graph"
    /\ ~fixed_order
    /\ consumable' = DOMAIN p_isa_graph
    /\ input_layers' = <<>>
    /\ pc' = "peel"
    /\ UNCHANGED <<fixed_order, combined_instructions, p_isa_graph, instructions>>

\* lines 29-43: one iteration of the while loop
LayerPeel ==
    /\ pc = "peel"
    /\ consumable # {}
    /\ LET layer == PeelLayer(p_isa_graph, consumable)
       IN  /\ input_layers' = PushLayer(input_layers, layer)
           /\ consumable' = consumable \ Range(layer)
    /\ UNCHANGED <<pc, fixed_order, combined_instructions, p_isa_graph, instructions>>

\* lines 45-60: loop exit, the layers concatenated
ReturnLayers ==
    /\ pc = "peel"
    /\ consumable = {}
    /\ instructions' = Flatten(input_layers)
    /\ pc' = "done"
    /\ UNCHANGED <<fixed_order, combined_instructions, p_isa_graph, consumable, input_layers>>

(***************************************************************************)
(* PolyProgram: operations with operand records (polynomial.h).            *)
(***************************************************************************)
Operand(l, r) == [location |-> l, num_of_rns_terms |-> r, num_of_polynomials |-> 2]

PolyOp(n, o, i) == [name |-> n, outs |-> <<o>>, ins |-> i]

RnsCounts == {1, 2}

\* the operations a trace of the model is made of
TraceOps ==
    {PolyOp("square", Operand("y", r), <<Operand("x", r)>>) : r \in RnsCounts}
    \cup {PolyOp("add", Operand("z", r), <<Operand(l, r), Operand("y", r)>>) :
            l \in {"x", "y"}, r \in RnsCounts}

ReadLocs(trace) == UNION {{trace[x].ins[y].location : y \in DOMAIN trace[x].ins} : x \in DOMAIN trace}

WrittenLocs(trace) == UNION {{trace[x].outs[y].location : y \in DOMAIN trace[x].outs} : x \in DOMAIN trace}

\* program_graph.getInputNodes(true, true, false): data nodes nothing writes
ProgramInputs(trace) == ReadLocs(trace) \ WrittenLocs(trace)

\* program_graph.getOutputNodes(): data nodes nothing reads
ProgramOutputs(trace) == WrittenLocs(trace) \ ReadLocs(trace)

\* generatePisaProgramFromHEProgam lines 13-25: inputs and outputs keep their
\* label; "" stands for a location with no entry yet
InitialRegisterMap(trace) ==
    [l \in ReadLocs(trace) \cup WrittenLocs(trace) |->
        IF l \in ProgramInputs(trace) \cup ProgramOutputs(trace) THEN l ELSE ""]

\* the operand occurrences in the order the loops of
\* mapProgramTraceOperationsIntoRegisterMap visit them (x and y 0-based)
OpOccurrences(op, x) ==
    [y \in DOMAIN op.ins |->
        [location |-> op.ins[y].location,
         value |-> op.name \o ToString(x) \o "input" \o ToString(y - 1)]]
    \o [y \in DOMAIN op.outs |->
        [location |-> op.outs[y].location,
         value |-> op.name \o ToString(x) \o "output" \o ToString(y - 1)]]

RECURSIVE TraceOccurrences(_, _)
TraceOccurrences(trace, x) ==
    IF x >= Len(trace) THEN <<>>
    ELSE OpOccurrences(trace[x + 1], x) \o TraceOccurrences(trace, x + 1)

RECURSIVE MapOccurrences(_, _)
MapOccurrences(occ, register_map) ==
    IF occ = <<>> THEN register_map
    ELSE LET o == Head(occ)
         IN  MapOccurrences(Tail(occ),
                 IF register_map[o.location] = ""
                 THEN [register_map EXCEPT ![o.location] = o.value]
                 ELSE register_map)

mapProgramTraceOperationsIntoRegisterMap(trace, register_map) ==
    MapOccurrences(TraceOccurrences(trace, 0), register_map)

(***************************************************************************)
(* Kernels. The generator writes, for an operation, a block of P-ISA       *)
(* instructions per residual over the positional names input0, input1,     *)
(* output0 and a kernel-local temporary; an operand is root and            *)
(* "_residual_chunk".                                                      *)
(***************************************************************************)
KOperand(root, q) == [root |-> root, rest |-> "_" \o ToString(q) \o "_0"]

location(operand) == operand.root \o operand.rest

KernelBlock(op, q) ==
    << Instr(IF op.name = "square" THEN "mul" ELSE "add",
             <<KOperand("t", q)>>,
             IF op.name = "square"
             THEN <<KOperand("input0", q), KOperand("input0", q)>>
             ELSE <<KOperand("input0", q), KOperand("input1", q)>>),
       Instr("copy", <<KOperand("output0", q)>>, <<KOperand("t", q)>>) >>

RECURSIVE KernelBlocks(_, _)
KernelBlocks(op, q) ==
    IF q >= op.ins[1].num_of_rns_terms THEN <<>>
    ELSE KernelBlock(op, q) \o KernelBlocks(op, q + 1)

\* what the generator prints for genKernInput(op)
GeneratedKernel(op) == KernelBlocks(op, 0)

\* createKernelFilepath (the directory is the same for every file)
createKernelFilepath(op) ==
    "BGV_" \o op.name \o "_8192_" \o ToString(op.ins[1].num_of_polynomials)
    \o "_" \o ToString(op.ins[1].num_of_rns_terms) \o ".csv"

CachePaths == {createKernelFilepath(op) : op \in TraceOps}

\* (mutant) the generator is skipped when no entry exists
GeneratorRunsWhenCached(use_cache, exists) == ~use_cache \/ exists

\* create_new line 126: whether system(command_string) is called
GeneratorRuns(use_cache, exists) == ~use_cache \/ ~exists

\* outcomes of system(command_string): the shell opens the file for the
\* redirection before the generator runs, so afterwards the file exists; a
\* generator that fails may have printed all of the kernel or part of it
GeneratorResults ==
    { [rc |-> 0, content |-> "complete"],
      [rc |-> 1, content |-> "partial"],
      [rc |-> 1, content |-> "complete"] }

\* ~Cache(): remove_all(_dirname) when _remove_cache
CacheDestroyed(files, remove) ==
    IF remove THEN [p \in DOMAIN files |-> "absent"] ELSE files

RECURSIVE Distinct(_)
\* a sequence without its repeated elements, first occurrences kept
Distinct(s) ==
    IF s = <<>> THEN <<>>
    ELSE LET front == Distinct(SubSeq(s, 1, Len(s) - 1))
             e     == s[Len(s)]
         IN  IF e \in Range(front) THEN front ELSE Append(front, e)

RECURSIVE ReadOperands(_)
ReadOperands(instrs) ==
    IF instrs = <<>> THEN <<>> ELSE Head(instrs).ins \o ReadOperands(Tail(instrs))

RECURSIVE WrittenOperands(_)
WrittenOperands(instrs) ==
    IF instrs = <<>> THEN <<>> ELSE Head(instrs).outs \o WrittenOperands(Tail(instrs))

Roots(operands) == [k \in DOMAIN operands |-> operands[k].root]

\* determineVariableNamingViaGraph: roots of the kernel graph's input nodes
\* (registers read and never written), without repeats. The sort of line 492
\* leaves the positional names input0, input1 in this order.
input_names(instrs) ==
    LET written == Range(WrittenOperands(instrs))
    IN  Distinct(Roots(SelectSeq(ReadOperands(instrs), LAMBDA o : o \notin written)))

output_names(instrs) ==
    LET read == Range(ReadOperands(instrs))
    IN  Distinct(Roots(SelectSeq(WrittenOperands(instrs), LAMBDA o : o \notin read)))

\* naming_map after determineVariableNamingViaGraph and the mapInput /
\* mapOutput calls of mapKernelInputOutputToRegisterMap for operation op
naming_map(kernel, op, register_map) ==
    LET ins  == input_names(kernel.instructions)
        outs == output_names(kernel.instructions)
    IN  [root \in Range(ins) \cup Range(outs) |->
            IF \E x \in DOMAIN op.ins : x <= Len(ins) /\ ins[x] = root
            THEN LET x == CHOOSE x \in DOMAIN op.ins : x <= Len(ins) /\ ins[x] = root
                 IN  register_map[op.ins[x].location]
            ELSE IF \E x \in DOMAIN op.outs : x <= Len(outs) /\ outs[x] = root
            THEN LET x == CHOOSE x \in DOMAIN op.outs : x <= Len(outs) /\ outs[x] = root
                 IN  register_map[op.outs[x].location]
            ELSE root]

\* createInternalVariableMap lines 440, 451
InternalName(kernel, operand) ==
    "internal" \o kernel.name \o ToString(kernel.kernel_id) \o "NS_" \o location(operand)

\* updateSymbols: the location of one operand of mapped_instructions
MappedLocation(kernel, names, enable_namespace, operand) ==
    IF operand.root \in DOMAIN names THEN names[operand.root] \o operand.rest
    ELSE IF enable_namespace THEN InternalName(kernel, operand)
    ELSE location(operand)

MappedInstruction(kernel, names, enable_namespace, instr) ==
    Instr(instr.name,
          [k \in DOMAIN instr.outs |-> MappedLocation(kernel, names, enable_namespace, instr.outs[k])],
          [k \in DOMAIN instr.ins |-> MappedLocation(kernel, names, enable_namespace, instr.ins[k])])

\* getMappedInstructions of kernel y after mapKernelInputOutputToRegisterMap
getMappedInstructions(kernel, op, register_map, enable_namespace) ==
    LET names == naming_map(kernel, op, register_map)
    IN  [k \in DOMAIN kernel.instructions |->
            MappedInstruction(kernel, names, enable_namespace, kernel.instructions[k])]

RECURSIVE outputCombinedPisaInstructions(_, _, _, _)
outputCombinedPisaInstructions(kernels, trace, register_map, apply_namespacing) ==
    IF kernels = <<>> THEN <<>>
    ELSE getMappedInstructions(Head(kernels), Head(trace), register_map, apply_namespacing)
         \o outputCombinedPisaInstructions(Tail(kernels), Tail(trace), register_map, apply_namespacing)

\* generatePisaProgramFromHEProgam lines 45-73 and 112: the emitted stream
EmittedStream(kernels, trace, apply_namespacing) ==
    LET register_map == mapProgramTraceOperationsIntoRegisterMap(trace, InitialRegisterMap(trace))
    IN  applyDuplicateInputVariableSeparation(
            outputCombinedPisaInstructions(kernels, trace, register_map, apply_namespacing))

(***************************************************************************)
(* One process running the mapper MaxRuns times over the same trace and    *)
(* arguments, with the cache directory kept between runs.                  *)
(***************************************************************************)
NoRequest ==
    [path |-> "", run |-> 0, entry_before |-> "absent", invoked |-> FALSE,
     rc |-> 0, failed |-> FALSE]

Runs == 1..MaxRuns

MapInit ==
    /\ global_kernel_id_counter = 0
    /\ cache_files = [p \in CachePaths |-> "absent"]
    /\ program_trace \in SeqsUpTo(TraceOps, MaxOps) \ {<<>>}
    /\ arguments \in [use_kernel_cache : BOOLEAN, remove_cache : BOOLEAN,
                      apply_name_spacing : BOOLEAN]
    /\ run = 1
    /\ mpc = "idle"
    /\ p_isa_kernels = <<>>
    /\ outputs = <<>>
    /\ kernel_id_start = <<>>
    /\ gen_count = [p \in CachePaths |-> [r \in Runs |-> 0]]
    /\ last_request = NoRequest

\* main: the mapper is entered; generatePISAKernelsFromHEOperationVector
\* constructs the Cache (create_directory keeps the files of the directory)
BeginRun ==
    /\ mpc = "idle"
    /\ mpc' = "kernels"
    /\ kernel_id_start' = Append(kernel_id_start, global_kernel_id_counter)
    /\ UNCHANGED <<global_kernel_id_counter, cache_files, program_trace, arguments,
                   run, p_isa_kernels, outputs, gen_count, last_request>>

\* PISAKernel::create_new for the next operation of the trace. When the parser
\* throws, the exception leaves generatePISAKernelsFromHEOperationVector (the
\* Cache is destroyed) and main returns 1.
CreateKernel ==
    /\ mpc = "kernels"
    /\ Len(p_isa_kernels) < Len(program_trace)
    /\ LET op     == program_trace[Len(p_isa_kernels) + 1]
           path   == createKernelFilepath(op)
           before == cache_files[path]
           invoke == GeneratorRuns(arguments.use_kernel_cache, before # "absent")
       IN  \E result \in GeneratorResults :
             /\ ~invoke => result.rc = 0
             /\ LET content == IF invoke THEN result.content ELSE before
                    files   == [cache_files EXCEPT ![path] = content]
                    kernel  == [name |-> op.name, kernel_id |-> global_kernel_id_counter,
                                instructions |-> GeneratedKernel(op)]
                IN  /\ global_kernel_id_counter' = global_kernel_id_counter + 1
                    /\ gen_count' = IF invoke
                                    THEN [gen_count EXCEPT ![path][run] = @ + 1]
                                    ELSE gen_count
                    /\ last_request' = [path |-> path, run |-> run, entry_before |-> before,
                                        invoked |-> invoke,
                                        rc |-> IF invoke THEN result.rc ELSE 0,
                                        failed |-> content # "complete"]
                    /\ IF content = "complete"
                       THEN /\ p_isa_kernels' = Append(p_isa_kernels, kernel)
                            /\ cache_files' = files
                            /\ UNCHANGED <<mpc, outputs>>
                       ELSE /\ cache_files' = CacheDestroyed(files, arguments.remove_cache)
                            /\ mpc' = "failed"
                            /\ outputs' = Append(outputs, [exit_code |-> 1, stream |-> <<>>,
                                                           unique_counter |-> 0])
                            /\ UNCHANGED p_isa_kernels
    /\ UNCHANGED <<program_trace, arguments, run, kernel_id_start>>

\* the rest of generatePisaProgramFromHEProgam once every kernel is created:
\* the Cache is destroyed, the kernels are renamed and spliced, the optimizer
\* runs with fixed_order = true and the stream is written; main returns 0
LowerProgram ==
    /\ mpc = "kernels"
    /\ Len(p_isa_kernels) = Len(program_trace)
    /\ cache_files' = CacheDestroyed(cache_files, arguments.remove_cache)
    /\ outputs' = Append(outputs,
                    [exit_code |-> 0,
                     stream |-> EmittedStream(p_isa_kernels, program_trace,
                                              arguments.apply_name_spacing),
                     unique_counter |-> InitialUniqueCounter])
    /\ mpc' = "finished"
    /\ UNCHANGED <<global_kernel_id_counter, program_trace, arguments, run, p_isa_kernels,
                   kernel_id_start, gen_count, last_request>>

\* the same process maps the same trace again
NextRun ==
    /\ mpc \in {"finished", "failed"}
    /\ run < MaxRuns
    /\ run' = run + 1
    /\ mpc' = "idle"
    /\ p_isa_kernels' = <<>>
    /\ UNCHANGED <<global_kernel_id_counter, cache_files, program_trace, arguments,
                   outputs, kernel_id_start, gen_count, last_request>>

\* the variables of the mapper while the optimizer is looked at alone
MapIdle ==
    /\ global_kernel_id_counter = 0
    /\ cache_files = [p \in CachePaths |-> "absent"]
    /\ program_trace = <<>>
    /\ arguments = [use_kernel_cache |-> TRUE, remove_cache |-> FALSE,
                    apply_name_spacing |-> TRUE]
    /\ run = 1
    /\ mpc = "idle"
    /\ p_isa_kernels = <<>>
    /\ outputs = <<>>
    /\ kernel_id_start = <<>>
    /\ gen_count = [p \in CachePaths |-> [r \in Runs |-> 0]]
    /\ last_request = NoRequest

\* the variables of the optimizer while the mapper is looked at as a whole
OptIdle ==
    /\ pc = "done"
    /\ fixed_order = TRUE
    /\ combined_instructions = <<>>
    /\ p_isa_graph = <<>>
    /\ consumable = {}
    /\ input_layers = <<>>
    /\ instructions = <<>>

(***************************************************************************)
(* Processes that share one cache directory, each inside create_new for    *)
(* one operation. system() is two steps: the shell opens the file of the   *)
(* redirection (the file exists, empty) and the generator prints into it   *)
(* until it exits.                                                         *)
(***************************************************************************)
Callers == 1..MaxCallers

ConcOps == {PolyOp("square", Operand("y", r), <<Operand("x", r)>>) : r \in RnsCounts}

NoRead == [content |-> "none", during_write |-> FALSE]

ConcInit ==
    /\ callers \in [Callers -> [pc : {"request"}, op : ConcOps, read : {NoRead}]]
    /\ generator_runs = [p \in CachePaths |-> 0]
    /\ cache_files = [p \in CachePaths |-> "absent"]
    /\ arguments \in [use_kernel_cache : BOOLEAN, remove_cache : {FALSE},
                      apply_name_spacing : {TRUE}]

\* no process is inside create_new
ConcIdle ==
    /\ callers = [c \in Callers |-> [pc |-> "idle", op |-> CHOOSE o \in ConcOps : TRUE,
                                     read |-> NoRead]]
    /\ generator_runs = [p \in CachePaths |-> 0]

MapRestUnchanged ==
    UNCHANGED <<global_kernel_id_counter, program_trace, arguments, run, mpc,
                p_isa_kernels, outputs, kernel_id_start, gen_count, last_request>>

\* create_new line 126
CheckCache(c) ==
    /\ callers[c].pc = "request"
    /\ callers' = [callers EXCEPT ![c].pc =
                     IF GeneratorRuns(arguments.use_kernel_cache,
                                      cache_files[createKernelFilepath(callers[c].op)] # "absent")
                     THEN "generate" ELSE "parse"]
    /\ UNCHANGED <<cache_files, generator_runs>>

\* create_new line 128: the shell starts the command, "> path" creates or
\* truncates the file
GeneratorStarts(c) ==
    /\ callers[c].pc = "generate"
    /\ callers' = [callers EXCEPT ![c].pc = "writing"]
    /\ cache_files' = [cache_files EXCEPT ![createKernelFilepath(callers[c].op)] = "partial"]
    /\ generator_runs' = [generator_runs EXCEPT ![createKernelFilepath(callers[c].op)] = @ + 1]

\* create_new line 128: the generator exits and system() returns
GeneratorEnds(c) ==
    /\ callers[c].pc = "writing"
    /\ \E result \in GeneratorResults :
         cache_files' = [cache_files EXCEPT ![createKernelFilepath(callers[c].op)] = result.content]
    /\ callers' = [callers EXCEPT ![c].pc = "parse"]
    /\ UNCHANGED generator_runs

\* create_new lines 131-136
Parse(c) ==
    /\ callers[c].pc = "parse"
    /\ LET path == createKernelFilepath(callers[c].op)
       IN  callers' = [callers EXCEPT
                ![c].read = [content |-> cache_files[path],
                             during_write |-> \E d \in Callers \ {c} :
                                  /\ callers[d].pc = "writing"
                                  /\ createKernelFilepath(callers[d].op) = path],
                ![c].pc = IF cache_files[path] = "complete" THEN "done" ELSE "failed"]
    /\ UNCHANGED <<cache_files, generator_runs>>

(***************************************************************************)
(* The memory manifest (.tw.mem) written for an instruction graph. A line  *)
(* is kept as its fields: the operation, what is moved, the slot, and the  *)
(* label of a polynomial line.                                             *)
(***************************************************************************)
\* node labels of the graphs the manifest is written for
Labels == {"a", "b"}

MaxNodes == 2

\* values of max_rns_terms: the value the mapper passes, and the two sides of
\* the step of high_rns_iters
RnsTerms == {0, 1, 65}

VARIABLES
    mem_inputs,     \* labels of graph.getInputNodes(true, false), in its order
    mem_outputs,    \* labels of graph.getOutputNodes(), in its order
    max_rns_terms,  \* argument of generateMemFile
    memory_file     \* the returned lines

memVars == <<mem_inputs, mem_outputs, max_rns_terms, memory_file>>

\* int / int of C++: the quotient is truncated towards zero
CppDiv(a, b) == IF a >= 0 THEN a \div b ELSE -((-a) \div b)

high_rns_iters(n) == 1 + CppDiv(n - 1, 64)

MemLine(op, what, slot, label) ==
    [op |-> op, what |-> what, slot |-> slot, label |-> label]

\* the four table lines and the twid and ones lines; counter++ per line
Preamble(n) ==
    <<MemLine("dload", "ntt_auxiliary_table", 0, ""),
      MemLine("dload", "ntt_routing_table", 1, ""),
      MemLine("dload", "intt_auxiliary_table", 2, ""),
      MemLine("dload", "intt_routing_table", 3, "")>>
    \o [k \in 1..(8 * high_rns_iters(n)) |-> MemLine("dload", "twid", 3 + k, "")]
    \o [k \in 1..high_rns_iters(n) |->
            MemLine("dload", "ones", 3 + 8 * high_rns_iters(n) + k, "")]

\* the lambda of both std::transform calls: st holds counter, hbm_address_map
\* and the lines appended so far
AddressLine(st, op, label) ==
    LET known == label \in DOMAIN st.hbm_address_map
        slot  == IF known THEN st.hbm_address_map[label] ELSE st.counter
    IN  [counter |-> IF known THEN st.counter ELSE st.counter + 1,
         hbm_address_map |-> [l \in DOMAIN st.hbm_address_map \cup {label} |->
                                 IF l = label THEN slot ELSE st.hbm_address_map[l]],
         lines |-> Append(st.lines, MemLine(op, "poly", slot, label))]

RECURSIVE AddressLines(_, _, _)
AddressLines(st, op, labels) ==
    IF labels = <<>> THEN st
    ELSE AddressLines(AddressLine(st, op, Head(labels)), op, Tail(labels))

generateMemFile(inputs, outs, n) ==
    LET start  == [counter |-> Len(Preamble(n)), hbm_address_map |-> <<>>,
                   lines |-> Preamble(n)]
        loaded == AddressLines(start, "dload", inputs)
    IN  AddressLines(loaded, "dstore", outs).lines

MemInit ==
    /\ mem_inputs \in SeqsUpTo(Labels, MaxNodes)
    /\ mem_outputs \in SeqsUpTo(Labels, MaxNodes)
    /\ max_rns_terms \in RnsTerms
    /\ memory_file = <<>>

MemIdle ==
    /\ mem_inputs = <<>>
    /\ mem_outputs = <<>>
    /\ max_rns_terms = 0
    /\ memory_file = <<>>

\* program_mapper.cpp:126
GenerateMemFile ==
    /\ memory_file = <<>>
    /\ memory_file' = generateMemFile(mem_inputs, mem_outputs, max_rns_terms)
    /\ UNCHANGED <<mem_inputs, mem_outputs, max_rns_terms>>

(***************************************************************************)
(* The manifest of a context or test vector (heracles/data/io.cpp). A text *)
(* is a sequence of lines, a line and every name a sequence of characters. *)
(* The parsed manifest maps a section name to a map from key to file name. *)
(***************************************************************************)
MaxLines == 3

\* the lines the texts are made of: section headers, entries with and
\* without blanks, a second value for a key, lines with no '=' and with
\* more than one '=', an entry without a value, and the empty line
ManifestLines ==
    { <<"[", "s", "]">>,
      <<"[", "t", "]">>,
      <<"k", "=", "v">>,
      <<" ", "k", " ", "=", " ", "v">>,
      <<"j", "=", "w">>,
      <<"k", "=", "w">>,
      <<"k", "=">>,
      <<"k", "=", "v", "=">>,
      <<"k", "=", "=", "v">>,
      <<"k", "v">>,
      <<>> }

VARIABLES
    manifest_text,   \* the lines of the file parse_manifest reads
    man_pc,          \* "start", "parsed", "rejected", "aborted", "generated"
    manifest,        \* the hdf_manifest parse_manifest returns
    stored_lines,    \* numbers of the lines whose entry parse_manifest stored
    generated_text   \* the lines generate_manifest writes

manVars == <<manifest_text, man_pc, manifest, stored_lines, generated_text>>

\* the lambda trim: every whitespace character is removed, also inside
trim(line) == SelectSeq(line, LAMBDA c : c # " ")

\* current_line.front() == '[' && current_line.back() == ']' on a line that
\* is not empty
IsSectionLine(line) == line[1] = "[" /\ line[Len(line)] = "]"

FirstEq(line) ==
    IF \E i \in DOMAIN line : line[i] = "="
    THEN CHOOSE i \in DOMAIN line : line[i] = "=" /\ \A j \in 1..(i - 1) : line[j] # "="
    ELSE 0

\* the loop over std::getline(current_line_ss, value, '='): the text up to
\* each '='; nothing is read once the stream is at its end
RECURSIVE SplitValues(_)
SplitValues(line) ==
    IF line = <<>> THEN <<>>
    ELSE IF FirstEq(line) = 0 THEN <<trim(line)>>
    ELSE <<trim(SubSeq(line, 1, FirstEq(line) - 1))>>
         \o SplitValues(SubSeq(line, FirstEq(line) + 1, Len(line)))

\* manifest[cur_field][key] = value
StoreEntry(m, field, key, value) ==
    [f \in DOMAIN m \cup {field} |->
        LET old == IF f \in DOMAIN m THEN m[f] ELSE <<>>
        IN  IF f = field
            THEN [k \in DOMAIN old \cup {key} |-> IF k = key THEN value ELSE old[k]]
            ELSE old]

\* one turn of the while loop of parse_manifest. front() of an empty line is
\* outside the contract of std::string: a build with library assertions
\* stops there, any other build reads the terminating zero
ParseLine(st, line, linenum, assertions) ==
    LET current_line == trim(line)
        values == SplitValues(current_line)
    IN  IF st.aborted THEN st
        ELSE IF current_line = <<>> /\ assertions THEN [st EXCEPT !.aborted = TRUE]
        ELSE IF current_line # <<>> /\ IsSectionLine(current_line)
        THEN [st EXCEPT !.cur_field = SubSeq(current_line, 2, Len(current_line) - 1),
                        !.found_first_field = TRUE]
        ELSE IF ~st.found_first_field THEN st
        ELSE IF Len(values) # 2 THEN st
        ELSE [st EXCEPT !.manifest = StoreEntry(st.manifest, st.cur_field,
                                                values[1], values[2]),
                        !.stored = st.stored \cup {linenum}]

RECURSIVE ParseLines(_, _, _, _)
ParseLines(st, text, linenum, assertions) ==
    IF linenum > Len(text) THEN st
    ELSE ParseLines(ParseLine(st, text[linenum], linenum, assertions),
                    text, linenum + 1, assertions)

parse_manifest(text, assertions) ==
    ParseLines([cur_field |-> <<>>, found_first_field |-> FALSE, manifest |-> <<>>,
                stored |-> {}, aborted |-> FALSE], text, 1, assertions)

\* the orders in which a range-for can visit the elements of an
\* unordered_map with the keys S
RECURSIVE Orders(_)
Orders(S) ==
    IF S = {} THEN {<<>>}
    ELSE UNION {{<<x>> \o o : o \in Orders(S \ {x})} : x \in S}

KeyOrders(m) ==
    {ko \in [DOMAIN m -> UNION {Orders(DOMAIN m[f]) : f \in DOMAIN m}] :
        \A f \in DOMAIN m : ko[f] \in Orders(DOMAIN m[f])}

RECURSIVE SectionLines(_, _, _)
SectionLines(m, field, keys) ==
    IF keys = <<>> THEN <<>>
    ELSE <<Head(keys) \o <<"=">> \o m[field][Head(keys)]>>
         \o SectionLines(m, field, Tail(keys))

\* generate_manifest, visiting the sections in the order fields and the keys
\* of a section f in the order ko[f]
RECURSIVE generate_manifest(_, _, _)
generate_manifest(m, fields, ko) ==
    IF fields = <<>> THEN <<>>
    ELSE <<(<<"[">> \o Head(fields) \o <<"]">>)>>
         \o SectionLines(m, Head(fields), ko[Head(fields)])
         \o generate_manifest(m, Tail(fields), ko)

ManInit ==
    /\ manifest_text \in SeqsUpTo(ManifestLines, MaxLines)
    /\ man_pc = "start"
    /\ manifest = <<>>
    /\ stored_lines = {}
    /\ generated_text = <<>>

ManIdle ==
    /\ manifest_text = <<>>
    /\ man_pc = "idle"
    /\ manifest = <<>>
    /\ stored_lines = {}
    /\ generated_text = <<>>

\* parse_manifest of a file that could be opened
ParseManifest ==
    /\ man_pc = "start"
    /\ \E assertions \in BOOLEAN :
         LET st == parse_manifest(manifest_text, assertions)
         IN  /\ man_pc' = IF st.aborted THEN "aborted"
                          ELSE IF ~st.found_first_field THEN "rejected"
                          ELSE "parsed"
             /\ manifest' = IF st.aborted \/ ~st.found_first_field THEN <<>>
                            ELSE st.manifest
             /\ stored_lines' = IF st.aborted \/ ~st.found_first_field THEN {}
                                ELSE st.stored
    /\ UNCHANGED <<manifest_text, generated_text>>

\* generate_manifest of the parsed manifest
GenerateManifest ==
    /\ man_pc = "parsed"
    /\ \E fields \in Orders(DOMAIN manifest), ko \in KeyOrders(manifest) :
         generated_text' = generate_manifest(manifest, fields, ko)
    /\ man_pc' = "generated"
    /\ UNCHANGED <<manifest_text, manifest, stored_lines>>

(***************************************************************************)
(* Word arithmetic (heracles/data/math.h, math.cpp, heracles/util/util.cpp)*)
(* The routines are templates over the unsigned word type T and are        *)
(* written in terms of Tbitsz = sizeof(T) * 8. Here a word has WordBits    *)
(* bits, a half word WordBits / 2 and the wide type (uint64_t next to      *)
(* uint32_t) 2 * WordBits; a word is a natural number below 2^bits and     *)
(* every operation is reduced to its width.                                *)
(***************************************************************************)
WordBits == 4

WideBits == 2 * WordBits

Pow2(n) == 2 ^ n

Words(bits) == 0..(Pow2(bits) - 1)

\* conversion of a value to the unsigned type of the given width
Wrap(v, bits) == v % Pow2(bits)

RECURSIVE BitAnd(_, _)
BitAnd(a, b) ==
    IF a = 0 \/ b = 0 THEN 0
    ELSE (IF a % 2 = 1 /\ b % 2 = 1 THEN 1 ELSE 0) + 2 * BitAnd(a \div 2, b \div 2)

RECURSIVE BitOr(_, _)
BitOr(a, b) ==
    IF a = 0 THEN b
    ELSE IF b = 0 THEN a
    ELSE (IF a % 2 = 1 \/ b % 2 = 1 THEN 1 ELSE 0) + 2 * BitOr(a \div 2, b \div 2)

BitNot(a, bits) == Pow2(bits) - 1 - a

ShiftLeft(a, n, bits) == Wrap(a * Pow2(n), bits)

ShiftRight(a, n) == a \div Pow2(n)

\* math.h:28-33
add_uint_mod(operand1, operand2, modulus) ==
    LET res == Wrap(operand1 + operand2, WordBits)
    IN  IF res >= modulus THEN Wrap(res - modulus, WordBits) ELSE res

\* add_uint(operand1, operand2, result)
add_uint(operand1, operand2) ==
    LET result == Wrap(operand1 + operand2, WordBits)
    IN  [result |-> result, carry |-> IF result < operand1 THEN 1 ELSE 0]

\* add_uint(operand1, operand2, carry, result)
add_uint_carry(operand1, operand2, carry) ==
    LET sum == Wrap(operand1 + operand2, WordBits)
    IN  [result |-> Wrap(sum + carry, WordBits),
         carry |-> IF sum < operand2 \/ BitNot(sum, WordBits) < carry THEN 1 ELSE 0]

\* sub_uint(operand1, operand2, result)
sub_uint(operand1, operand2) ==
    [result |-> Wrap(operand1 - operand2, WordBits),
     borrow |-> IF operand2 > operand1 THEN 1 ELSE 0]

\* sub_uint(operand1, operand2, borrow, result)
sub_uint_borrow(operand1, operand2, borrow) ==
    LET diff == Wrap(operand1 - operand2, WordBits)
    IN  [result |-> Wrap(diff - (IF borrow # 0 THEN 1 ELSE 0), WordBits),
         borrow |-> IF diff > operand1 \/ diff < borrow THEN 1 ELSE 0]

\* the words 1..uint_count of the operands are added; st.result holds the
\* words written so far
RECURSIVE AddWords(_, _, _, _, _)
AddWords(operand1, operand2, uint_count, i, st) ==
    IF i > uint_count THEN st
    ELSE LET r == IF i = 1 THEN add_uint(operand1[1], operand2[1])
                  ELSE add_uint_carry(operand1[i], operand2[i], st.carry)
         IN  AddWords(operand1, operand2, uint_count, i + 1,
                      [result |-> [st.result EXCEPT ![i] = r.result], carry |-> r.carry])

add_uint_base(operand1, operand2, uint_count, result) ==
    AddWords(operand1, operand2, uint_count, 1, [result |-> result, carry |-> 0])

RECURSIVE SubWords(_, _, _, _, _)
SubWords(operand1, operand2, uint_count, i, st) ==
    IF i > uint_count THEN st
    ELSE LET r == IF i = 1 THEN sub_uint(operand1[1], operand2[1])
                  ELSE sub_uint_borrow(operand1[i], operand2[i], st.borrow)
         IN  SubWords(operand1, operand2, uint_count, i + 1,
                      [result |-> [st.result EXCEPT ![i] = r.result], borrow |-> r.borrow])

sub_uint_base(operand1, operand2, uint_count, result) ==
    SubWords(operand1, operand2, uint_count, 1, [result |-> result, borrow |-> 0])

\* multiply_uint: the two words of the product, result[0] first, computed from
\* the half words of the operands
multiply_uint(operand1, operand2) ==
    LET half   == WordBits \div 2
        low    == Pow2(half) - 1
        operand1_coeff_right == BitAnd(operand1, low)
        operand2_coeff_right == BitAnd(operand2, low)
        op1    == ShiftRight(operand1, half)
        op2    == ShiftRight(operand2, half)
        middle1 == Wrap(op1 * operand2_coeff_right, WordBits)
        mid    == add_uint(middle1, Wrap(op2 * operand1_coeff_right, WordBits))
        middle == mid.result
        left   == Wrap(op1 * op2 + ShiftLeft(mid.carry, half, WordBits), WordBits)
        right  == Wrap(operand1_coeff_right * operand2_coeff_right, WordBits)
        temp_sum == Wrap(ShiftRight(right, half) + BitAnd(middle, low), WordBits)
    IN  <<BitOr(ShiftLeft(temp_sum, half, WordBits), BitAnd(right, low)),
          Wrap(left + ShiftRight(middle, half) + ShiftRight(temp_sum, half), WordBits)>>

\* index of the highest set bit of a value that is not zero (the lookup of
\* get_msb_index gives this index)
RECURSIVE get_msb_index(_)
get_msb_index(value) == IF value <= 1 THEN 0 ELSE 1 + get_msb_index(value \div 2)

get_significant_bit_count(value) ==
    IF value = 0 THEN 0 ELSE get_msb_index(value) + 1

RECURSIVE get_significant_bit_count_uint(_, _)
get_significant_bit_count_uint(value, uint_count) ==
    IF value[uint_count] = 0 /\ uint_count > 1
    THEN get_significant_bit_count_uint(value, uint_count - 1)
    ELSE (uint_count - 1) * WordBits + get_significant_bit_count(value[uint_count])

\* operand and result are three words, word [0] of the code is word 1 here
right_shift_uint3(operand, shift_amount) ==
    LET whole == IF BitAnd(shift_amount, WordBits * 2) # 0 THEN <<operand[3], 0, 0>>
                 ELSE IF BitAnd(shift_amount, WordBits) # 0 THEN <<operand[2], operand[3], 0>>
                 ELSE operand
        bit_shift_amount == BitAnd(shift_amount, WordBits - 1)
        neg_bit_shift_amount == WordBits - bit_shift_amount
    IN  IF bit_shift_amount = 0 THEN whole
        ELSE <<BitOr(ShiftRight(whole[1], bit_shift_amount),
                     ShiftLeft(whole[2], neg_bit_shift_amount, WordBits)),
               BitOr(ShiftRight(whole[2], bit_shift_amount),
                     ShiftLeft(whole[3], neg_bit_shift_amount, WordBits)),
               ShiftRight(whole[3], bit_shift_amount)>>

left_shift_uint3(operand, shift_amount) ==
    LET whole == IF BitAnd(shift_amount, WordBits * 2) # 0 THEN <<0, 0, operand[1]>>
                 ELSE IF BitAnd(shift_amount, WordBits) # 0 THEN <<0, operand[1], operand[2]>>
                 ELSE operand
        bit_shift_amount == BitAnd(shift_amount, WordBits - 1)
        neg_bit_shift_amount == WordBits - bit_shift_amount
    IN  IF bit_shift_amount = 0 THEN whole
        ELSE <<ShiftLeft(whole[1], bit_shift_amount, WordBits),
               BitOr(ShiftLeft(whole[2], bit_shift_amount, WordBits),
                     ShiftRight(whole[1], neg_bit_shift_amount)),
               BitOr(ShiftLeft(whole[3], bit_shift_amount, WordBits),
                     ShiftRight(whole[2], neg_bit_shift_amount))>>

Min(a, b) == IF a < b THEN a ELSE b

\* the while loop of divide_uint3_inplace; st holds numerator, quotient,
\* difference, numerator_bits and remaining_shifts
RECURSIVE DivideLoop(_, _, _, _)
\* one test of the loop condition and, when it holds, one pass of the body
DivideIteration(st, shifted_denominator, denominator_bits, uint_count) ==
    IF st.numerator_bits # denominator_bits THEN st
    ELSE
      LET sub == sub_uint_base(st.numerator, shifted_denominator, uint_count, st.difference)
      IN  IF sub.borrow # 0 /\ st.remaining_shifts = 0
          THEN [st EXCEPT !.difference = sub.result]
          ELSE
            LET restored == sub.borrow # 0
                difference == IF restored
                              THEN add_uint_base(sub.result, st.numerator, uint_count,
                                                 sub.result).result
                              ELSE sub.result
                quotient1 == IF restored THEN left_shift_uint3(st.quotient, 1)
                             ELSE st.quotient
                remaining1 == IF restored THEN st.remaining_shifts - 1
                              ELSE st.remaining_shifts
                quotient2 == [quotient1 EXCEPT ![1] = BitOr(quotient1[1], 1)]
                numerator_bits == get_significant_bit_count_uint(difference, uint_count)
                numerator_shift == Min(denominator_bits - numerator_bits, remaining1)
            IN  DivideLoop(
                  [numerator |-> IF numerator_bits > 0
                                 THEN left_shift_uint3(difference, numerator_shift)
                                 ELSE [i \in 1..3 |-> IF i <= uint_count THEN 0
                                                      ELSE st.numerator[i]],
                   quotient |-> left_shift_uint3(quotient2, numerator_shift),
                   difference |-> difference,
                   numerator_bits |-> IF numerator_bits > 0
                                      THEN numerator_bits + numerator_shift
                                      ELSE numerator_bits,
                   remaining_shifts |-> remaining1 - numerator_shift],
                  shifted_denominator, denominator_bits, uint_count)

\* the loop from a state whose value is known (every pass starts from the
\* values the pass before it stored)
DivideLoop(state, shifted_denominator, denominator_bits, uint_count) ==
    CHOOSE after \in {DivideIteration(st, shifted_denominator, denominator_bits, uint_count) :
                         st \in {state}} : TRUE

\* divide_uint3_inplace: the numerator after the call (the remainder) and the
\* quotient. With the numerator of multiply_uint_mod uint_count is 3, the
\* length of the vectors the three-word shifts work on.
divide_uint3_inplace(numerator, denominator) ==
    LET numerator_bits == get_significant_bit_count_uint(numerator, 3)
        denominator_bits == get_significant_bit_count(denominator)
        uint_count == (numerator_bits + WordBits - 1) \div WordBits
        denominator_shift == numerator_bits - denominator_bits
        shifted_denominator == left_shift_uint3(<<denominator, 0, 0>>, denominator_shift)
        st == DivideLoop([numerator |-> numerator, quotient |-> <<0, 0, 0>>,
                          difference |-> <<0, 0, 0>>,
                          numerator_bits |-> numerator_bits,
                          remaining_shifts |-> denominator_shift],
                         shifted_denominator, denominator_bits + denominator_shift,
                         uint_count)
    IN  IF numerator_bits < denominator_bits
        THEN [numerator |-> numerator, quotient |-> <<0, 0, 0>>]
        ELSE IF uint_count = 1
        THEN [numerator |-> [numerator EXCEPT ![1] =
                                Wrap(numerator[1] - (numerator[1] \div denominator) * denominator,
                                     WordBits)],
              quotient |-> <<numerator[1] \div denominator, 0, 0>>]
        ELSE [numerator |-> IF st.numerator_bits > 0
                            THEN right_shift_uint3(st.numerator, denominator_shift)
                            ELSE st.numerator,
              quotient |-> st.quotient]

\* the barrett reduction of the two-word product (math.h:297-310)
BarrettReduce(prod, const_ratio, modulus) ==
    LET carry0 == multiply_uint(prod[1], const_ratio[1])
        tmp2a == multiply_uint(prod[1], const_ratio[2])
        sum1 == add_uint(tmp2a[1], carry0[2])
        tmp3a == Wrap(tmp2a[2] + sum1.carry, WordBits)
        tmp2b == multiply_uint(prod[2], const_ratio[1])
        sum2 == add_uint(sum1.result, tmp2b[1])
        carry1 == Wrap(tmp2b[2] + sum2.carry, WordBits)
        tmp1 == Wrap(prod[2] * const_ratio[2] + tmp3a + carry1, WordBits)
        tmp3 == Wrap(prod[1] - tmp1 * modulus, WordBits)
    IN  IF tmp3 >= modulus THEN Wrap(tmp3 - modulus, WordBits) ELSE tmp3

\* multiply_uint_mod for a modulus that is not zero (zero throws): the
\* product and the ratio are computed, then the product is reduced
multiply_uint_mod(operand1, operand2, modulus) ==
    LET div == divide_uint3_inplace(<<0, 0, 1>>, modulus)
    IN  CHOOSE result \in
            {BarrettReduce(prod, const_ratio, modulus) :
                prod \in {multiply_uint(operand1, operand2)},
                const_ratio \in {<<div.quotient[1], div.quotient[2], div.numerator[1]>>}} : TRUE

\* static_cast to the signed type of the given width
ToSigned(v, bits) ==
    IF Wrap(v, bits) >= Pow2(bits - 1) THEN Wrap(v, bits) - Pow2(bits) ELSE Wrap(v, bits)

InSigned(v, bits) == -Pow2(bits - 1) <= v /\ v < Pow2(bits - 1)

\* the while loop of xgcd in the signed type of the given width. A product or
\* a difference outside the type is a signed overflow: overflow records that
\* one happened, the values go on as the wrapping arithmetic gives them
RECURSIVE XgcdLoop(_, _)
XgcdLoop(st, bits) ==
    IF st.y = 0 THEN st
    ELSE LET q == ToSigned(st.x \div st.y, bits)
             temp == ToSigned(st.x % st.y, bits)
         IN  XgcdLoop([x |-> st.y,
                       y |-> Wrap(temp, bits),
                       prev_a |-> st.a,
                       a |-> ToSigned(st.prev_a - st.a * q, bits),
                       prev_b |-> st.b,
                       b |-> ToSigned(st.prev_b - st.b * q, bits),
                       overflow |-> \/ st.overflow
                                    \/ ~InSigned(st.a * q, bits)
                                    \/ ~InSigned(st.prev_a - ToSigned(st.a * q, bits), bits)
                                    \/ ~InSigned(st.b * q, bits)
                                    \/ ~InSigned(st.prev_b - ToSigned(st.b * q, bits), bits)],
                      bits)

\* xgcd(x, y): the gcd, the two coefficients, and whether a signed overflow
\* happened on the way
xgcd(x, y, bits) ==
    LET st == XgcdLoop([x |-> x, y |-> y, prev_a |-> 1, a |-> 0, prev_b |-> 0, b |-> 1,
                        overflow |-> FALSE], bits)
    IN  [gcd |-> st.x, a |-> st.prev_a, b |-> st.prev_b, overflow |-> st.overflow]

\* try_invert_uint_mod in the type of the given width: the returned bool and
\* *result (untouched when false is returned). A signed overflow inside xgcd
\* is undefined: a build that traps on it (-ftrapv) stops, a build with
\* wrapping arithmetic goes on.
try_invert_uint_mod(value, modulus, result, bits, traps) ==
    LET gcd_tuple == xgcd(value, modulus, bits)
    IN  IF value = 0 THEN [status |-> "false", result |-> result]
        ELSE IF gcd_tuple.overflow /\ traps THEN [status |-> "aborted", result |-> result]
        ELSE IF gcd_tuple.gcd # 1 THEN [status |-> "false", result |-> result]
        ELSE IF gcd_tuple.a < 0
        THEN [status |-> "true", result |-> Wrap(Wrap(gcd_tuple.a, bits) + modulus, bits)]
        ELSE [status |-> "true", result |-> Wrap(gcd_tuple.a, bits)]

\* util.h:25-26 with the word of the model
montgomery_R == Pow2(WordBits)

\* util.cpp:17-20, modulus not zero
convert_to_montgomery(num, modulus) ==
    Wrap(ShiftLeft(num, WordBits, WideBits) % modulus, WordBits)

\* util.cpp:23-28: the bool of try_invert_uint_mod is not looked at, inv_r is
\* 0 when the inversion fails
convert_to_normal(num, modulus, traps) ==
    LET inv == try_invert_uint_mod(montgomery_R, modulus, 0, WideBits, traps)
    IN  IF inv.status = "aborted" THEN [status |-> "aborted", value |-> 0]
        ELSE [status |-> "returned",
              value |-> multiply_uint_mod(num, Wrap(inv.result, WordBits), modulus)]

\* math.h:381-405 with use_mont; u, m, z and _u are two words each, the low
\* word first
montgomeryMul(a, b, modulus) ==
    LET u   == multiply_uint(a, b)
        k   == Wrap(modulus - 2, WordBits)
        low == CHOOSE m \in {multiply_uint(w, k) : w \in {u[1]}} : TRUE
        z   == CHOOSE z \in {multiply_uint(w, modulus) : w \in {low[1]}} : TRUE
        sum == add_uint_base(u, z, 2, <<0, 0>>).result
    IN  IF sum[2] < modulus THEN sum[2] ELSE Wrap(sum[2] - modulus, WordBits)

\* transform.cpp:239-244: the value stored under neg_inv_t_{pt}_mod_q_i_{i}
\* for the plaintext modulus t and the prime q, inv holding what the calls
\* before left in it; -inv is the negation of a uint32_t
neg_inv_t(t, q, inv, traps) ==
    LET inverted == try_invert_uint_mod(t, q, inv, WordBits, traps)
    IN  IF inverted.status = "aborted" \/ q = 0 THEN [status |-> "aborted", value |-> 0]
        ELSE [status |-> "returned",
              value |-> convert_to_montgomery(Wrap(0 - inverted.result, WordBits), q)]

VARIABLES
    operand1,   \* first argument of the routine called
    operand2,   \* second argument
    modulus,    \* the modulus argument
    called,     \* the routine that was called, "none" before the call
    returned    \* how the call ended and the value it gave

mathVars == <<operand1, operand2, modulus, called, returned>>

NoValue == [status |-> "none", value |-> 0]

MathInit ==
    /\ operand1 \in Words(WordBits)
    /\ operand2 \in Words(WordBits)
    /\ modulus \in Words(WordBits)
    /\ called = "none"
    /\ returned = NoValue

MathIdle ==
    /\ operand1 = 0
    /\ operand2 = 0
    /\ modulus = 0
    /\ called = "idle"
    /\ returned = NoValue

CallAddUintMod ==
    /\ called = "none"
    /\ called' = "add_uint_mod"
    /\ returned' = [status |-> "returned",
                    value |-> add_uint_mod(operand1, operand2, modulus)]
    /\ UNCHANGED <<operand1, operand2, modulus>>

CallMultiplyUintMod ==
    /\ called = "none"
    /\ called' = "multiply_uint_mod"
    /\ returned' = IF modulus = 0 THEN [status |-> "throws", value |-> 0]
                   ELSE [status |-> "returned",
                         value |-> multiply_uint_mod(operand1, operand2, modulus)]
    /\ UNCHANGED <<operand1, operand2, modulus>>

\* try_invert_uint_mod(operand1, modulus, &result) with result 0 before
CallTryInvertUintMod ==
    /\ called = "none"
    /\ called' = "try_invert_uint_mod"
    /\ \E traps \in BOOLEAN :
         LET inv == try_invert_uint_mod(operand1, modulus, 0, WordBits, traps)
         IN  returned' = [status |-> inv.status, value |-> inv.result]
    /\ UNCHANGED <<operand1, operand2, modulus>>

\* convert_to_normal(convert_to_montgomery(operand1, modulus), modulus); the
\* remainder by a modulus of zero stops the program
CallMontgomeryRoundTrip ==
    /\ called = "none"
    /\ called' = "convert_to_normal"
    /\ \E traps \in BOOLEAN :
         returned' = IF modulus = 0 THEN [status |-> "aborted", value |-> 0]
                     ELSE convert_to_normal(convert_to_montgomery(operand1, modulus),
                                            modulus, traps)
    /\ UNCHANGED <<operand1, operand2, modulus>>

\* montgomeryMul(operand1, operand2, modulus)
CallMontgomeryMul ==
    /\ called = "none"
    /\ called' = "montgomeryMul"
    /\ returned' = [status |-> "returned",
                    value |-> montgomeryMul(operand1, operand2, modulus)]
    /\ UNCHANGED <<operand1, operand2, modulus>>

\* the body of the loop over the plaintext moduli in
\* extract_metadata_immediates for one prime: operand1 is the plaintext
\* modulus, modulus the prime q_i and operand2 the value of inv before
CallNegInvT ==
    /\ called = "none"
    /\ called' = "neg_inv_t"
    /\ \E traps \in BOOLEAN :
         returned' = neg_inv_t(operand1, modulus, operand2, traps)
    /\ UNCHANGED <<operand1, operand2, modulus>>

(***************************************************************************)
(* reverse_bits (math.cpp). A uint32_t is kept bit by bit, bit 0 the least *)
(* significant, so that the masks and shifts are those of the code.        *)
(***************************************************************************)
MaxSetBits == 1

BitIndex == 0..31

Zero32 == [i \in BitIndex |-> 0]

\* a hexadecimal constant, the eight digits from the most significant
HexWord(digits) ==
    [i \in BitIndex |-> (digits[8 - (i \div 4)] \div Pow2(i % 4)) % 2]

And32(x, y) == [i \in BitIndex |-> IF x[i] = 1 /\ y[i] = 1 THEN 1 ELSE 0]

Or32(x, y) == [i \in BitIndex |-> IF x[i] = 1 \/ y[i] = 1 THEN 1 ELSE 0]

Shr32(x, n) == [i \in BitIndex |-> IF i + n <= 31 THEN x[i + n] ELSE 0]

Shl32(x, n) == [i \in BitIndex |-> IF i >= n THEN x[i - n] ELSE 0]

\* the reversal without the shift that brings the reversed bits down
reverse_bitsNotShifted(operand, bit_count) ==
    IF bit_count = 0 THEN Zero32
    ELSE [i \in BitIndex |-> operand[31 - i]]

reverse_bits(operand, bit_count) ==
    LET s1 == Or32(Shr32(And32(operand, HexWord(<<10, 10, 10, 10, 10, 10, 10, 10>>)), 1),
                   Shl32(And32(operand, HexWord(<<5, 5, 5, 5, 5, 5, 5, 5>>)), 1))
        s2 == Or32(Shr32(And32(s1, HexWord(<<12, 12, 12, 12, 12, 12, 12, 12>>)), 2),
                   Shl32(And32(s1, HexWord(<<3, 3, 3, 3, 3, 3, 3, 3>>)), 2))
        s4 == Or32(Shr32(And32(s2, HexWord(<<15, 0, 15, 0, 15, 0, 15, 0>>)), 4),
                   Shl32(And32(s2, HexWord(<<0, 15, 0, 15, 0, 15, 0, 15>>)), 4))
        s8 == Or32(Shr32(And32(s4, HexWord(<<15, 15, 0, 0, 15, 15, 0, 0>>)), 8),
                   Shl32(And32(s4, HexWord(<<0, 0, 15, 15, 0, 0, 15, 15>>)), 8))
    IN  IF bit_count = 0 THEN Zero32
        ELSE Shr32(Or32(Shr32(s8, 16), Shl32(s8, 16)), 32 - bit_count)

\* the sets of at most n bit positions
RECURSIVE BitSetsUpTo(_)
BitSetsUpTo(n) ==
    IF n = 0 THEN {{}}
    ELSE BitSetsUpTo(n - 1) \cup {s \cup {i} : s \in BitSetsUpTo(n - 1), i \in BitIndex}

\* the operands looked at: at most MaxSetBits bits set, or at most
\* MaxSetBits bits clear
Operands32 ==
    {[i \in BitIndex |-> IF i \in s THEN 1 ELSE 0] : s \in BitSetsUpTo(MaxSetBits)}
    \cup {[i \in BitIndex |-> IF i \in s THEN 0 ELSE 1] : s \in BitSetsUpTo(MaxSetBits)}

VARIABLES
    rb_operand,   \* the word reverse_bits is called with first
    bit_count,    \* the bit count of both calls
    rb_pc,        \* "start", "once", "twice"
    reversed,     \* reverse_bits(rb_operand, bit_count)
    restored      \* reverse_bits(reversed, bit_count)

revVars == <<rb_operand, bit_count, rb_pc, reversed, restored>>

RevInit ==
    /\ rb_operand \in Operands32
    /\ bit_count \in 0..32
    /\ rb_pc = "start"
    /\ reversed = Zero32
    /\ restored = Zero32

RevIdle ==
    /\ rb_operand = Zero32
    /\ bit_count = 32
    /\ rb_pc = "idle"
    /\ reversed = Zero32
    /\ restored = Zero32

ReverseOnce ==
    /\ rb_pc = "start"
    /\ reversed' = reverse_bits(rb_operand, bit_count)
    /\ rb_pc' = "once"
    /\ UNCHANGED <<rb_operand, bit_count, restored>>

ReverseAgain ==
    /\ rb_pc = "once"
    /\ restored' = reverse_bits(reversed, bit_count)
    /\ rb_pc' = "twice"
    /\ UNCHANGED <<rb_operand, bit_count, reversed>>

(***************************************************************************)
(* Metadata extraction from an FHEContext (heracles/data/transform.cpp).   *)
(* The maps are kept as the sets of their keys; values are computed where  *)
(* the control flow depends on them. The context is a protobuf message:    *)
(* q_i has key_rns_num entries, and reading an entry past the end of a     *)
(* repeated field is outside its contract.                                 *)
(***************************************************************************)
MaxRns == 2

\* RNS primes of the word of the model
RnsPrimes == {3, 5, 7}

Schemes == {"SCHEME_BGV", "SCHEME_CKKS"}

\* Galois elements of the rotation keys
GaloisElts == {3}

\* what a read past the end of q_i gives: a build with checked accessors
\* stops (the word is then not looked at), any other build reads whatever
\* word lies there
OutOfRangeReads == [checked : BOOLEAN, word : {0, 1, 3}]

InjectiveSeqs(S, n) ==
    {s \in [1..n -> S] : \A i, j \in 1..n : i # j => s[i] # s[j]}

\* the contexts looked at: q_i of length key_rns_num, key_rns_num = q_size +
\* sizeP, alpha * digit_size >= q_size, at least one plaintext for BGV
Contexts ==
    {c \in [scheme : Schemes, key_rns_num : 1..MaxRns, q_size : 1..MaxRns,
            alpha : 1..MaxRns, digit_size : 1..MaxRns,
            q_i : UNION {InjectiveSeqs(RnsPrimes, n) : n \in 1..MaxRns},
            rotation_keys : SUBSET GaloisElts, plaintexts : 1..2,
            relin_k : {1}, boot_correction : {2}] :
        /\ Len(c.q_i) = c.key_rns_num
        /\ c.q_size <= c.key_rns_num
        /\ c.alpha <= c.q_size
        /\ c.digit_size = (c.q_size + c.alpha - 1) \div c.alpha
        /\ c.scheme = "SCHEME_BGV" => (c.q_size = c.key_rns_num /\ c.alpha = 1)
        /\ c.scheme = "SCHEME_CKKS" => c.plaintexts = 1}

VARIABLES
    context,            \* the FHEContext
    meta_pc,            \* "start", "polys", "immediates"
    sym_poly_map,       \* keys of metadata_polys
    sym_immediate_map,  \* keys of metadata_immediates
    meta_status         \* how extract_metadata_immediates ended

metaVars == <<context, meta_pc, sym_poly_map, sym_immediate_map, meta_status>>

Idx(n) == 0..(n - 1)

\* toStrKey and std::to_string of indices
Key2(i, j) == ToString(i) \o "_" \o ToString(j)

Key3(i, j, l) == Key2(i, j) \o "_" \o ToString(l)

Key4(i, j, l, s) == Key3(i, j, l) \o "_" \o ToString(s)

\* transform_and_flatten_key_switch: a key has digit_size digits of two
\* polynomials with key_rns_num RNS polynomials each
KeySwitchKeys(c, prefix) ==
    {prefix \o "_" \o Key3(p, d, r) :
        p \in Idx(2), d \in Idx(c.digit_size), r \in Idx(c.key_rns_num)}

\* extract_metadata_polys: the keys of sym_poly_map
extract_metadata_polys(c) ==
    LET nQ == Len(c.q_i)
        roots == UNION {{"psi_default_" \o ToString(i), "ipsi_default_" \o ToString(i)} :
                            i \in Idx(nQ)}
        halves == IF c.scheme = "SCHEME_CKKS"
                  THEN UNION {{"qlHalf_" \o ToString(i)}
                              \cup {"qlHalfModq_" \o Key2(i, j) :
                                       j \in Idx(IF i <= 1 THEN c.q_size ELSE i)} :
                              i \in {k \in Idx(nQ) : k < c.q_size}}
                  ELSE {}
        galois == {"ipsi_" \o Key2(ge, i) : ge \in c.rotation_keys, i \in Idx(nQ)}
        switch == IF c.scheme = "SCHEME_BGV"
                  THEN UNION {KeySwitchKeys(c, "rlk_" \o ToString(pt))
                              \cup UNION {KeySwitchKeys(c, "gk_" \o Key2(pt, ge)) :
                                             ge \in c.rotation_keys} :
                              pt \in Idx(c.plaintexts)}
                  ELSE KeySwitchKeys(c, "rlk")
                       \cup UNION {KeySwitchKeys(c, "gk_" \o ToString(ge)) :
                                      ge \in c.rotation_keys}
        boot == IF c.scheme = "SCHEME_CKKS" THEN {"zero"} ELSE {}
    IN  roots \cup halves \cup galois \cup switch \cup boot

\* the loop at the head of both branches of extract_metadata_immediates
PerPrimeKeys(c) ==
    {"one", "iN"}
    \cup UNION {{"R2_" \o ToString(i), "iN_" \o ToString(i)} : i \in Idx(c.key_rns_num)}

\* extract_metadata_immediates, scheme BGV: no entry of q_i past the end is
\* read, key_rns_num - 1 is the bound of the last loops
ImmediatesBGV(c) ==
    LET n == c.key_rns_num
    IN  PerPrimeKeys(c)
        \cup UNION {{"inv_q_i_" \o ToString(i) \o "_mod_q_j_" \o ToString(j) : j \in Idx(i)} :
                        i \in Idx(n)}
        \cup UNION {{"neg_inv_t_" \o ToString(pt) \o "_mod_q_i_" \o ToString(i),
                     "t_" \o ToString(pt) \o "_mod_q_i_" \o ToString(i)} :
                        pt \in Idx(c.plaintexts), i \in Idx(n)}
        \cup {"inv_p_mod_q_i_" \o ToString(i) : i \in Idx(n - 1)}
        \cup {"base_change_matrix_" \o Key3(i, j, c.relin_k) :
                 i \in {k \in Idx(n) : \E l \in Idx(n - 1) : k < l + 1}, j \in Idx(n)}
        \cup {"inv_punctured_prod_" \o Key2(i, i) :
                 i \in {k \in Idx(n) : \E l \in Idx(n - 1) : k < l + 1}}

\* std::to_string(1 << i)
Pow2Text(i) == IF i = 31 THEN "2147483648" ELSE ToString(Pow2(i))

\* the keys the CKKS branch writes after q0InvModq1 and q1InvModq0
ImmediatesCKKSRest(c) ==
    LET dnum == c.digit_size
        alpha == c.alpha
        sizeQ == c.q_size
        sizeP == c.key_rns_num - c.q_size
        digitSizeOf(i) == IF i < dnum - 1 THEN alpha ELSE sizeQ - alpha * (dnum - 1)
        beta(i) == (i + 1 + alpha - 1) \div alpha
        digitSizeIn(i, j) == IF j < beta(i) - 1 THEN alpha ELSE (i + 1) - alpha * (beta(i) - 1)
        sizeCompl(i, j) == (i + 1) + sizeP - digitSizeIn(i, j)
    IN  {"q0InvModq1", "q1InvModq0"}
        \cup {"partQHatInvModq_" \o Key2(i, j) : i \in Idx(dnum), j \in Idx(sizeQ)}
        \cup UNION {UNION {{"partQlHatInvModq_" \o Key3(i, j, l) : l \in Idx(j + 1)} :
                               j \in Idx(digitSizeOf(i))} :
                        i \in Idx(dnum)}
        \cup UNION {UNION {{"partQlHatModp_" \o Key4(i, j, l, s) :
                               l \in Idx(digitSizeIn(i, j)), s \in Idx(sizeCompl(i, j))} :
                               j \in Idx(beta(i))} :
                        i \in Idx(sizeQ)}
        \cup UNION {{"pInvModq_" \o ToString(i), "pModq_" \o ToString(i)} : i \in Idx(sizeQ)}
        \cup {"pHatInvModp_" \o ToString(i) : i \in Idx(sizeP)}
        \cup {"pHatModq_" \o Key2(i, j) : i \in Idx(sizeP), j \in Idx(sizeQ)}
        \cup UNION {UNION {{"qlInvModq_" \o Key2(i, j),
                             "QlQlInvModqlDivqlModq_" \o Key2(i, j)} :
                               j \in Idx(sizeQ - i - 1)} :
                        i \in Idx(sizeQ - 1)}
        \cup {"qlModq_" \o Key2(i, j) : i \in Idx(2), j \in Idx(sizeQ)}
        \cup {"bmu_" \o Pow2Text(i) \o "_" \o ToString(j) : i \in Idx(32), j \in Idx(sizeQ)}
        \cup {"bmu_" \o ToString(c.boot_correction)}

\* get_invert_uint_mod(value, modulus): "true" when the inverse is returned,
\* "false" when the runtime_error is thrown
get_invert_uint_mod(value, q, traps) ==
    try_invert_uint_mod(value, q, 0, WordBits, traps).status

\* extract_metadata_immediates, scheme CKKS. q_i(1) is read for q0InvModq1
\* whatever key_rns_num is; read is what the read gives when q_i has one entry
ImmediatesCKKS(c, read, traps) ==
    LET q0 == c.q_i[1]
        past == Len(c.q_i) < 2
        q1 == IF past THEN read.word ELSE c.q_i[2]
        inv01 == get_invert_uint_mod(q0, q1, traps)
        inv10 == get_invert_uint_mod(q1, q0, traps)
    IN  IF past /\ read.checked THEN [status |-> "aborted", keys |-> PerPrimeKeys(c)]
        ELSE IF inv01 = "aborted" THEN [status |-> "aborted", keys |-> PerPrimeKeys(c)]
        ELSE IF inv01 = "false" THEN [status |-> "throws", keys |-> PerPrimeKeys(c)]
        ELSE IF inv10 = "aborted" THEN [status |-> "aborted", keys |-> PerPrimeKeys(c)]
        ELSE IF inv10 = "false" THEN [status |-> "throws", keys |-> PerPrimeKeys(c)]
        ELSE [status |-> "returned", keys |-> PerPrimeKeys(c) \cup ImmediatesCKKSRest(c)]

extract_metadata_immediates(c, read, traps) ==
    IF c.scheme = "SCHEME_BGV" THEN [status |-> "returned", keys |-> ImmediatesBGV(c)]
    ELSE ImmediatesCKKS(c, read, traps)

MetaInit ==
    /\ context \in Contexts
    /\ meta_pc = "start"
    /\ sym_poly_map = {}
    /\ sym_immediate_map = {}
    /\ meta_status = "running"

MetaIdle ==
    /\ context = CHOOSE c \in Contexts : TRUE
    /\ meta_pc = "idle"
    /\ sym_poly_map = {}
    /\ sym_immediate_map = {}
    /\ meta_status = "running"

ExtractMetadataPolys ==
    /\ meta_pc = "start"
    /\ sym_poly_map' = extract_metadata_polys(context)
    /\ meta_pc' = "polys"
    /\ UNCHANGED <<context, sym_immediate_map, meta_status>>

ExtractMetadataImmediates ==
    /\ meta_pc = "polys"
    /\ \E read \in OutOfRangeReads, traps \in BOOLEAN :
         LET out == extract_metadata_immediates(context, read, traps)
         IN  /\ sym_immediate_map' = out.keys
             /\ meta_status' = out.status
    /\ meta_pc' = "immediates"
    /\ UNCHANGED <<context, sym_poly_map>>

(***************************************************************************)
(* PISAKernel: the renames a kernel records and the instruction list it    *)
(* hands out (pisakernel.cpp). An operand location is a root and the rest  *)
(* of the name (RNS and block terms); setLocationRoot replaces the root,   *)
(* setLocation the whole name, which is split at its first '_' again.      *)
(***************************************************************************)
Loc(r, t) == [root |-> r, rest |-> t]

\* a location set from a name without '_'
Whole(s) == Loc(s, "")

\* std::map: operator[] on assignment
Put(m, k, v) == [x \in DOMAIN m \cup {k} |-> IF x = k THEN v ELSE m[x]]

\* the names a kernel can be told to use for a symbol
NewNames == {"x", "y"}

\* the instructions of the kernel file: r0 <- input0 * imm; output0 <- r0 + input1
KernelInstructions ==
    << Instr("muli", <<Loc("r0", "_0")>>, <<Loc("input0", "_0"), Loc("imm", "")>>),
       Instr("add", <<Loc("output0", "_0")>>, <<Loc("r0", "_0"), Loc("input1", "_0")>>) >>

\* "internal" + name + std::to_string(kernel_id) + "NS_" + name_loc, as the
\* location of an operand
InternalLocation(name, kernel_id, loc) ==
    Loc("internal" \o name \o ToString(kernel_id) \o "NS", "_" \o loc.root \o loc.rest)

\* PISAKernel::create and determineVariableNamingViaGraph for an operation
\* name and a kernel id: the kernel as generatePISAKernelsFromHEOperationVector
\* returns it
NewKernel(name, kernel_id) ==
    [instructions |-> KernelInstructions,
     mapped_instructions |-> KernelInstructions,
     input_names |-> <<"input0", "input1">>,
     output_names |-> <<"output0">>,
     immediate_names |-> <<"imm">>,
     naming_map |-> [s \in {"input0", "input1", "output0"} |-> s],
     immediate_map |-> [s \in {"imm"} |-> "imm"],
     internal_map |-> <<>>,
     map_dirty |-> TRUE,
     enable_namespace |-> TRUE,
     name |-> name,
     kernel_id |-> kernel_id]

setImmediate(k, key, value) ==
    [k EXCEPT !.immediate_map = Put(@, key, value), !.map_dirty = TRUE]

mapInput(k, index, new_name) ==
    [k EXCEPT !.naming_map = Put(@, k.input_names[index], new_name), !.map_dirty = TRUE]

mapImmediate(k, index, new_name) ==
    [k EXCEPT !.naming_map = Put(@, k.immediate_names[index], new_name), !.map_dirty = TRUE]

mapOutput(k, index, new_name) ==
    [k EXCEPT !.naming_map = Put(@, k.output_names[index], new_name), !.map_dirty = TRUE]

setEnableNamespace(k, newNamespace_internal_variables) ==
    [k EXCEPT !.enable_namespace = newNamespace_internal_variables]

\* the operands of the instructions in the order the loops visit them
RECURSIVE OperandsInOrder(_)
OperandsInOrder(instrs) ==
    IF instrs = <<>> THEN <<>>
    ELSE Head(instrs).ins \o Head(instrs).outs \o OperandsInOrder(Tail(instrs))

\* the second loop of createInternalVariableMap over the operands left
RECURSIVE InternalEntries(_, _, _)
InternalEntries(k, operands, internal_map) ==
    IF operands = <<>> THEN internal_map
    ELSE LET op == Head(operands)
             name_loc == location(op)
         IN  InternalEntries(k, Tail(operands),
                 IF /\ op.root \notin DOMAIN k.naming_map
                    /\ name_loc \notin DOMAIN k.immediate_map
                    /\ name_loc \notin DOMAIN internal_map
                 THEN Put(internal_map, name_loc, InternalLocation(k.name, k.kernel_id, op))
                 ELSE internal_map)

createInternalVariableMap(k) ==
    LET names == {k.immediate_names[i] : i \in DOMAIN k.immediate_names}
        keys == DOMAIN k.immediate_map
        \* immediate_names first, immediate_map over them
        naming == [s \in DOMAIN k.naming_map \cup names \cup keys |->
                      IF s \in keys THEN k.immediate_map[s]
                      ELSE IF s \in names THEN s ELSE k.naming_map[s]]
        internal == [s \in DOMAIN k.internal_map \cup names \cup keys |->
                      IF s \in keys THEN Whole(k.immediate_map[s])
                      ELSE IF s \in names THEN Whole(s) ELSE k.internal_map[s]]
        k1 == [k EXCEPT !.naming_map = naming]
    IN  [k1 EXCEPT !.internal_map =
            InternalEntries(k1, OperandsInOrder(k.instructions), internal)]

\* what updateSymbols does to one operand of mapped_instructions; original is
\* the operand of instructions at the same place
UpdateOperand(k, original, mapped) ==
    IF original.root \in DOMAIN k.naming_map
    THEN [mapped EXCEPT !.root = k.naming_map[original.root]]
    ELSE IF k.enable_namespace
    THEN LET name_loc == location(original)
         IN  IF name_loc \in DOMAIN k.internal_map THEN k.internal_map[name_loc]
             ELSE Whole("")
    ELSE mapped

updateSymbols(k) ==
    LET k1 == IF DOMAIN k.internal_map = {} THEN createInternalVariableMap(k) ELSE k
    IN  [k1 EXCEPT
           !.mapped_instructions =
               [i \in DOMAIN k.instructions |->
                   Instr(k.instructions[i].name,
                         [x \in DOMAIN k.instructions[i].outs |->
                             UpdateOperand(k1, k.instructions[i].outs[x],
                                           k.mapped_instructions[i].outs[x])],
                         [x \in DOMAIN k.instructions[i].ins |->
                             UpdateOperand(k1, k.instructions[i].ins[x],
                                           k.mapped_instructions[i].ins[x])])],
           !.map_dirty = IF k.instructions = <<>> THEN k.map_dirty ELSE FALSE]

\* the kernel after getMappedInstructions; the list returned is its
\* mapped_instructions
getMappedInstructionsOf(k) == IF k.map_dirty THEN updateSymbols(k) ELSE k

\* longest sequence of calls made on one kernel
MaxCalls == 3

VARIABLES
    kernel,         \* the PISAKernel
    calls,          \* number of calls made on it
    last_call,      \* name of the last call
    recorded,       \* symbol -> the name of the latest rename recorded for it
    returned_list   \* the list the last getMappedInstructions returned

kernVars == <<kernel, calls, last_call, recorded, returned_list>>

KernInit ==
    /\ kernel = NewKernel("add", 0)
    /\ calls = 0
    /\ last_call = "create"
    /\ recorded = <<>>
    /\ returned_list = <<>>

KernIdle ==
    /\ kernel = NewKernel("add", 0)
    /\ calls = MaxCalls
    /\ last_call = "idle"
    /\ recorded = <<>>
    /\ returned_list = <<>>

CallMapInput ==
    /\ calls < MaxCalls
    /\ \E index \in DOMAIN kernel.input_names, new_name \in NewNames :
         /\ kernel' = mapInput(kernel, index, new_name)
         /\ recorded' = Put(recorded, kernel.input_names[index], new_name)
    /\ calls' = calls + 1
    /\ last_call' = "mapInput"
    /\ UNCHANGED returned_list

CallMapOutput ==
    /\ calls < MaxCalls
    /\ \E index \in DOMAIN kernel.output_names, new_name \in NewNames :
         /\ kernel' = mapOutput(kernel, index, new_name)
         /\ recorded' = Put(recorded, kernel.output_names[index], new_name)
    /\ calls' = calls + 1
    /\ last_call' = "mapOutput"
    /\ UNCHANGED returned_list

CallMapImmediate ==
    /\ calls < MaxCalls
    /\ \E index \in DOMAIN kernel.immediate_names, new_name \in NewNames :
         /\ kernel' = mapImmediate(kernel, index, new_name)
         /\ recorded' = Put(recorded, kernel.immediate_names[index], new_name)
    /\ calls' = calls + 1
    /\ last_call' = "mapImmediate"
    /\ UNCHANGED returned_list

CallSetImmediate ==
    /\ calls < MaxCalls
    /\ \E index \in DOMAIN kernel.immediate_names, value \in NewNames :
         /\ kernel' = setImmediate(kernel, kernel.immediate_names[index], value)
         /\ recorded' = Put(recorded, kernel.immediate_names[index], value)
    /\ calls' = calls + 1
    /\ last_call' = "setImmediate"
    /\ UNCHANGED returned_list

CallSetEnableNamespace ==
    /\ calls < MaxCalls
    /\ \E b \in BOOLEAN : kernel' = setEnableNamespace(kernel, b)
    /\ calls' = calls + 1
    /\ last_call' = "setEnableNamespace"
    /\ UNCHANGED <<recorded, returned_list>>

CallGetMappedInstructions ==
    /\ calls < MaxCalls
    /\ kernel' = getMappedInstructionsOf(kernel)
    /\ returned_list' = getMappedInstructionsOf(kernel).mapped_instructions
    /\ calls' = calls + 1
    /\ last_call' = "getMappedInstructions"
    /\ UNCHANGED recorded

(***************************************************************************)
(* generatePisaProgramFromHEProgam up to the combined instruction list,    *)
(* for traces whose symbols are any strings a trace file can hold: the     *)
(* register map, one kernel per operation, and the renamed list of every   *)
(* kernel.                                                                 *)
(***************************************************************************)
\* symbols of the traces of this part
LinkLabels == {"x", "y", "square0output0", "internaladd0NS_t"}

LinkOps ==
    {PolyOp("square", Operand("y", 1), <<Operand(l, 1)>>) : l \in LinkLabels \ {"y"}}
    \cup {PolyOp("add", Operand("z", 1), <<Operand(l, 1), Operand("y", 1)>>) :
            l \in LinkLabels}

\* values of global_kernel_id_counter when the mapper is entered
FirstKernelIds == {0, 1}

VARIABLES linked_trace, first_kernel_id, apply_namespacing, linked_register_map,
          linked_kernels, kernel_lists, lpc

linkVars == <<linked_trace, first_kernel_id, apply_namespacing, linked_register_map,
              linked_kernels, kernel_lists, lpc>>

LinkInit ==
    /\ linked_trace \in SeqsUpTo(LinkOps, MaxOps) \ {<<>>}
    /\ first_kernel_id \in FirstKernelIds
    /\ apply_namespacing \in BOOLEAN
    /\ linked_register_map = <<>>
    /\ linked_kernels = <<>>
    /\ kernel_lists = <<>>
    /\ lpc = "entered"

LinkIdle ==
    /\ linked_trace = <<>>
    /\ first_kernel_id = 0
    /\ apply_namespacing = FALSE
    /\ linked_register_map = <<>>
    /\ linked_kernels = <<>>
    /\ kernel_lists = <<>>
    /\ lpc = "idle"

\* generatePisaProgramFromHEProgam lines 13-45
BuildRegisterMap ==
    /\ lpc = "entered"
    /\ linked_register_map' =
           mapProgramTraceOperationsIntoRegisterMap(linked_trace,
                                                    InitialRegisterMap(linked_trace))
    /\ lpc' = "mapped"
    /\ UNCHANGED <<linked_trace, first_kernel_id, apply_namespacing, linked_kernels,
                   kernel_lists>>

\* generatePISAKernelsFromHEOperationVector: one kernel per operation, the
\* ids taken from global_kernel_id_counter in the order of the trace
GenerateKernels ==
    /\ lpc = "mapped"
    /\ linked_kernels' =
           [y \in DOMAIN linked_trace |->
               [name |-> linked_trace[y].name, kernel_id |-> first_kernel_id + y - 1,
                instructions |-> GeneratedKernel(linked_trace[y])]]
    /\ lpc' = "kernels"
    /\ UNCHANGED <<linked_trace, first_kernel_id, apply_namespacing, linked_register_map,
                   kernel_lists>>

\* mapKernelInputOutputToRegisterMap and the loop of
\* outputCombinedPisaInstructions: the list getMappedInstructions returns
\* for every kernel
SpliceKernels ==
    /\ lpc = "kernels"
    /\ kernel_lists' =
           [y \in DOMAIN linked_kernels |->
               getMappedInstructions(linked_kernels[y], linked_trace[y],
                                     linked_register_map, apply_namespacing)]
    /\ lpc' = "spliced"
    /\ UNCHANGED <<linked_trace, first_kernel_id, apply_namespacing, linked_register_map,
                   linked_kernels>>

(***************************************************************************)
(* The memory manifest the mapper writes for a program: max_rns_term from  *)
(* its declaration to the call of generateMemFile.                         *)
(***************************************************************************)
\* RNS counts of the operations of a program, on both sides of the steps of
\* the high-RNS iterations
ProgramRnsCounts == {1, 64, 65, 128, 129}

VARIABLES
    trace_rns,       \* getRnsTerms() of the operations of the trace, in order
    graph_inputs,    \* labels of the input nodes of p_isa_graph
    graph_outputs,   \* labels of its output nodes
    max_rns_term,    \* the local of generatePisaProgramFromHEProgam
    mem_file,        \* the lines written to the .tw.mem file
    wpc

writeVars == <<trace_rns, graph_inputs, graph_outputs, max_rns_term, mem_file, wpc>>

WriteInit ==
    /\ trace_rns \in SeqsUpTo(ProgramRnsCounts, MaxOps) \ {<<>>}
    /\ graph_inputs \in SeqsUpTo(Labels, 1) \ {<<>>}
    /\ graph_outputs \in SeqsUpTo(Labels, 1) \ {<<>>}
    /\ max_rns_term = 0
    /\ mem_file = <<>>
    /\ wpc = "entered"

WriteIdle ==
    /\ trace_rns = <<>>
    /\ graph_inputs = <<>>
    /\ graph_outputs = <<>>
    /\ max_rns_term = 0
    /\ mem_file = <<>>
    /\ wpc = "idle"

\* the lambda of generatePISAKernelsFromHEOperationVector for one operation:
\* the statement max_rns_term = std::max(max_rns_term, s->getRnsTerms()) is
\* a comment, the reference is left as it is
KernelLambda(term, rns) == term

RECURSIVE TransformKernels(_, _)
\* std::transform over the trace
TransformKernels(term, rns_counts) ==
    IF rns_counts = <<>> THEN term
    ELSE TransformKernels(KernelLambda(term, Head(rns_counts)), Tail(rns_counts))

\* program_mapper.cpp lines 52-53
GenerateProgramKernels ==
    /\ wpc = "entered"
    /\ max_rns_term' = TransformKernels(0, trace_rns)
    /\ wpc' = "kernels"
    /\ UNCHANGED <<trace_rns, graph_inputs, graph_outputs, mem_file>>

\* program_mapper.cpp lines 125-128
WriteMemFile ==
    /\ wpc = "kernels"
    /\ mem_file' = generateMemFile(graph_inputs, graph_outputs, max_rns_term)
    /\ wpc' = "written"
    /\ UNCHANGED <<trace_rns, graph_inputs, graph_outputs, max_rns_term>>

(***************************************************************************)
(* isolateGraphVariables. A register node of the graph is the register's   *)
(* name in the instructions given; labels holds the label of every node.   *)
(* An instruction node's in-neighbours are its input registers in operand  *)
(* order and its out-neighbours its output registers.                      *)
(***************************************************************************)
\* the instructions the graphs of this part are made of: MACs with the
\* accumulator at each place and one without accumulator, MULIs with the
\* immediate at either place, and additions around them
IsolatedOps ==
    {Instr("mac", <<"a">>, ins) :
        ins \in {s \in [1..3 -> Regs] : \A i \in 1..3 : \A j \in 1..3 : s[i] = s[j] => i = j}}
    \cup {Instr("mac", <<"a">>, <<"b", "c", "d">>),
          Instr("add", <<"b">>, <<"x", "y">>),
          Instr("add", <<"o">>, <<"a", "b">>),
          Instr("muli", <<"b">>, <<"imm", "x">>),
          Instr("muli", <<"b">>, <<"x", "imm">>)}

\* the orders in which n nodes can be visited
VisitOrders(n) == {s \in [1..n -> 1..n] : \A i \in 1..n : \A j \in 1..n : s[i] = s[j] => i = j}

RegistersOf(instrs) ==
    UNION {Range(instrs[k].ins) \cup Range(instrs[k].outs) : k \in DOMAIN instrs}

\* GetOutDeg of a register node: the instructions that read it
RegisterOutDeg(instrs, r) == Cardinality({k \in DOMAIN instrs : r \in Range(instrs[k].ins)})

VARIABLES
    iso_graph,          \* the instructions of p_isa_graph, as given
    iso_order,          \* input_layers flattened: the order of the visits
    labels,             \* the label of every register node
    rename_lock_list,
    unique_counter,
    adjusted,           \* the instructions after nodeInstructionAdjustment
    iso_pc

isoVars == <<iso_graph, iso_order, labels, rename_lock_list, unique_counter, adjusted,
             iso_pc>>

IsoInit ==
    /\ iso_graph \in SeqsUpTo(IsolatedOps, MaxOps) \ {<<>>}
    /\ iso_order \in VisitOrders(Len(iso_graph))
    /\ labels = [r \in RegistersOf(iso_graph) |-> r]
    /\ rename_lock_list = {}
    /\ unique_counter = InitialUniqueCounter
    /\ adjusted = iso_graph
    /\ iso_pc = "entered"

IsoIdle ==
    /\ iso_graph = <<>>
    /\ iso_order = <<>>
    /\ labels = <<>>
    /\ rename_lock_list = {}
    /\ unique_counter = InitialUniqueCounter
    /\ adjusted = <<>>
    /\ iso_pc = "idle"

\* (mutant) a lock list of the program outputs alone
nodeLocklistOutputsOnly(instr, instrs, lbl) ==
    {lbl[t] : t \in {t \in Range(instr.outs) : RegisterOutDeg(instrs, t) = 0}}

\* the registers nodeLocklist adds for one instruction node
nodeLocklist(instr, instrs, lbl) ==
    {lbl[t] : t \in {t \in Range(instr.outs) :
                        RegisterOutDeg(instrs, t) = 0 \/ instr.name = "mac"}}

RECURSIVE LocklistPass(_, _, _, _)
LocklistPass(order, instrs, lbl, locked) ==
    IF order = <<>> THEN locked
    ELSE LocklistPass(Tail(order), instrs, lbl,
                      locked \cup nodeLocklist(instrs[Head(order)], instrs, lbl))

RECURSIVE AdjustTargets(_, _, _)
\* the loop of nodeVariableAdjustment over the out-neighbours; st holds
\* labels and unique_counter, which the printing and the assignment both
\* increment
AdjustTargets(targets, locked, st) ==
    IF targets = <<>> THEN st
    ELSE LET t == Head(targets)
         IN  AdjustTargets(Tail(targets), locked,
                 IF st.labels[t] \in locked THEN st
                 ELSE [labels |-> [st.labels EXCEPT ![t] =
                                      "uid_" \o ToString(st.unique_counter + 1) \o "_" \o @],
                       unique_counter |-> st.unique_counter + 2])

nodeVariableAdjustment(instr, locked, st) == AdjustTargets(instr.outs, locked, st)

RECURSIVE VariablePass(_, _, _, _)
VariablePass(order, instrs, locked, st) ==
    IF order = <<>> THEN st
    ELSE VariablePass(Tail(order), instrs, locked,
                      nodeVariableAdjustment(instrs[Head(order)], locked, st))

\* an instruction node as the graph shows it: every operand place holds the
\* label of the register node it is connected to
Relabelled(instr, lbl) ==
    Instr(instr.name, [k \in DOMAIN instr.outs |-> lbl[instr.outs[k]]],
          [k \in DOMAIN instr.ins |-> lbl[instr.ins[k]]])

RECURSIVE InstructionPass(_, _, _)
\* the third loop of isolateGraphVariables; st holds the instructions and
\* whether nodeInstructionAdjustment has thrown
InstructionPass(order, lbl, st) ==
    IF order = <<>> \/ st.thrown THEN st
    ELSE LET k   == Head(order)
             new == nodeInstructionAdjustment(Relabelled(st.instrs[k], lbl))
         IN  InstructionPass(Tail(order), lbl,
                 IF new = InvalidMac THEN [st EXCEPT !.thrown = TRUE]
                 ELSE [st EXCEPT !.instrs[k] = new])

\* isolateGraphVariables lines 70-77
BuildLocklist ==
    /\ iso_pc = "entered"
    /\ rename_lock_list' = LocklistPass(iso_order, iso_graph, labels, rename_lock_list)
    /\ iso_pc' = "locked"
    /\ UNCHANGED <<iso_graph, iso_order, labels, unique_counter, adjusted>>

\* isolateGraphVariables lines 79-86
AdjustVariables ==
    /\ iso_pc = "locked"
    /\ LET st == VariablePass(iso_order, iso_graph, rename_lock_list,
                              [labels |-> labels, unique_counter |-> unique_counter])
       IN  /\ labels' = st.labels
           /\ unique_counter' = st.unique_counter
    /\ iso_pc' = "renamed"
    /\ UNCHANGED <<iso_graph, iso_order, rename_lock_list, adjusted>>

\* isolateGraphVariables lines 95-103
AdjustInstructions ==
    /\ iso_pc = "renamed"
    /\ LET st == InstructionPass(iso_order, labels, [instrs |-> adjusted, thrown |-> FALSE])
       IN  /\ adjusted' = st.instrs
           /\ iso_pc' = IF st.thrown THEN "thrown" ELSE "returned"
    /\ UNCHANGED <<iso_graph, iso_order, labels, rename_lock_list, unique_counter>>

(***************************************************************************)
(* A binary trace instruction read into a PolyOperation and written back   *)
(* (polyprogram.cpp). An operand record of the trace is symbol_name,       *)
(* num_rns and order.                                                      *)
(***************************************************************************)
TraceRnsCounts == {1, 2, 3}

TraceOrders == {2, 3}

TraceOperand(s) ==
    {[symbol_name |-> s, num_rns |-> r, order |-> o] : r \in TraceRnsCounts, o \in TraceOrders}

\* instructions with one destination and one or two sources
TraceInstructions ==
    {[op |-> "square", dests |-> <<d>>, srcs |-> <<s>>] :
        d \in TraceOperand("z"), s \in TraceOperand("x")}
    \cup {[op |-> "add", dests |-> <<d>>, srcs |-> <<s, t>>] :
            d \in TraceOperand("z"), s \in TraceOperand("x"), t \in TraceOperand("y")}

\* Polynomial(_name, _num_of_rns_terms, _num_of_polynomials)
Polynomial(name, rns_terms, polynomials) ==
    [register_name |-> name, num_of_rns_terms |-> rns_terms,
     num_of_polynomials |-> polynomials]

addInput(operation, arg, poly_num, rns_num) ==
    [operation EXCEPT !.input_locations = Append(@, Polynomial(arg, rns_num, poly_num))]

addOutput(operation, arg, poly_num, rns_num) ==
    [operation EXCEPT !.output_locations = Append(@, Polynomial(arg, rns_num, poly_num))]

RECURSIVE AddOutputs(_, _)
AddOutputs(operation, dests) ==
    IF dests = <<>> THEN operation
    ELSE AddOutputs(addOutput(operation, Head(dests).symbol_name, Head(dests).num_rns,
                              Head(dests).order),
                    Tail(dests))

RECURSIVE AddInputs(_, _)
AddInputs(operation, srcs) ==
    IF srcs = <<>> THEN operation
    ELSE AddInputs(addInput(operation, Head(srcs).symbol_name, Head(srcs).num_rns,
                            Head(srcs).order),
                   Tail(srcs))

\* a PolyOperation of the given name before its components are set
NewOperation(name) == [name |-> name, output_locations |-> <<>>, input_locations |-> <<>>]

\* the operands setComponents adds (the parameters are left out)
setComponents(operation, instr_pb) ==
    AddInputs(AddOutputs(operation, instr_pb.dests), instr_pb.srcs)

WrittenOperand(p) ==
    [symbol_name |-> p.register_name, num_rns |-> p.num_of_rns_terms,
     order |-> p.num_of_polynomials]

getProtobuffFHETraceInstruction(operation) ==
    [op |-> operation.name,
     dests |-> [k \in DOMAIN operation.output_locations |->
                   WrittenOperand(operation.output_locations[k])],
     srcs |-> [k \in DOMAIN operation.input_locations |->
                  WrittenOperand(operation.input_locations[k])]]

VARIABLES instr_pb, poly_operation, instruction_out, tpc

traceVars == <<instr_pb, poly_operation, instruction_out, tpc>>

TraceInit ==
    /\ instr_pb \in TraceInstructions
    /\ poly_operation = NewOperation(instr_pb.op)
    /\ instruction_out = [op |-> "", dests |-> <<>>, srcs |-> <<>>]
    /\ tpc = "read"

TraceIdle ==
    /\ instr_pb = [op |-> "", dests |-> <<>>, srcs |-> <<>>]
    /\ poly_operation = NewOperation("")
    /\ instruction_out = [op |-> "", dests |-> <<>>, srcs |-> <<>>]
    /\ tpc = "idle"

\* the trace instruction is parsed
ParseInstruction ==
    /\ tpc = "read"
    /\ poly_operation' = setComponents(poly_operation, instr_pb)
    /\ tpc' = "parsed"
    /\ UNCHANGED <<instr_pb, instruction_out>>

\* the parsed operation is written back
WriteInstruction ==
    /\ tpc = "parsed"
    /\ instruction_out' = getProtobuffFHETraceInstruction(poly_operation)
    /\ tpc' = "written"
    /\ UNCHANGED <<instr_pb, poly_operation>>

(***************************************************************************)
(* Kernel requests of programs that differ in their context and in the     *)
(* shape of every operand: the input the generator is given, the cache     *)
(* file, and create_new with the cache in use.                             *)
(***************************************************************************)
RequestSchemes == {"BGV", "CKKS"}

RequestKeyRns == {1, 2}

RequestPolys == {2, 3}

ShapedOperand(l, r, n) == [location |-> l, num_of_rns_terms |-> r, num_of_polynomials |-> n]

\* the operation of a request and the context of its parent program
KernelRequests ==
    {[scheme |-> s, poly_modulus_degree |-> 8192, key_rns |-> k,
      op |-> PolyOp(n, ShapedOperand("z", r, po),
                    <<ShapedOperand("x", r, p0), ShapedOperand("y", r, p1)>>)] :
        s \in RequestSchemes, k \in RequestKeyRns, n \in {"add", "mul"},
        r \in RnsCounts, po \in {3}, p0 \in RequestPolys, p1 \in RequestPolys}

\* genKernInput: the CONTEXT line, a DATA line per operand and the operation
\* line, each as its fields
genKernInput(request) ==
    LET op == request.op
    IN  << <<"CONTEXT", request.scheme, request.poly_modulus_degree, request.key_rns,
             op.ins[1].num_of_rns_terms>> >>
        \o [i \in DOMAIN op.outs |->
               <<"DATA", "output", i - 1, op.outs[i].num_of_polynomials>>]
        \o [i \in DOMAIN op.ins |->
               <<"DATA", "input", i - 1, op.ins[i].num_of_polynomials>>]
        \o << <<op.name, Len(op.outs), Len(op.ins)>> >>

\* createKernelFilepath for an operation of any program
createKernelFilepathOf(request) ==
    request.scheme \o "_" \o request.op.name \o "_"
    \o ToString(request.poly_modulus_degree) \o "_"
    \o ToString(request.op.ins[1].num_of_polynomials) \o "_"
    \o ToString(request.op.ins[1].num_of_rns_terms) \o ".csv"

VARIABLES
    requests,       \* the requests made, in order
    kernel_files,   \* path -> the generator input the file was printed for
    parsed_from,    \* per request served: the generator input of the file parsed
    uses_cache

requestVars == <<requests, kernel_files, parsed_from, uses_cache>>

RequestInit ==
    /\ requests \in [1..2 -> KernelRequests]
    /\ kernel_files = <<>>
    /\ parsed_from = <<>>
    /\ uses_cache \in BOOLEAN

RequestIdle ==
    /\ requests = <<>>
    /\ kernel_files = <<>>
    /\ parsed_from = <<>>
    /\ uses_cache = FALSE

\* create_new for the next request: the generator runs when the cache is not
\* in use or the file does not exist, and the file is parsed
CreateNew ==
    /\ Len(parsed_from) < Len(requests)
    /\ LET request == requests[Len(parsed_from) + 1]
           kernel_file_path == createKernelFilepathOf(request)
           files == IF ~uses_cache \/ kernel_file_path \notin DOMAIN kernel_files
                    THEN Put(kernel_files, kernel_file_path, genKernInput(request))
                    ELSE kernel_files
       IN  /\ kernel_files' = files
           /\ parsed_from' = Append(parsed_from, files[kernel_file_path])
    /\ UNCHANGED <<requests, uses_cache>>

\* the Cache is destroyed with remove_cache set: the files are removed
RemoveCache ==
    /\ kernel_files # <<>>
    /\ kernel_files' = <<>>
    /\ UNCHANGED <<requests, parsed_from, uses_cache>>

(***************************************************************************)
(* Specifications.                                                         *)
(***************************************************************************)
\* the variables of the kernel objects and of the routines looked at on
\* their own
restVars == <<kernVars, linkVars, writeVars, isoVars, traceVars, requestVars>>

RestIdle == KernIdle /\ LinkIdle /\ WriteIdle /\ IsoIdle /\ TraceIdle /\
            RequestIdle

\* the variables of the library routines while the mapper is looked at
libVars == <<memVars, manVars, mathVars, revVars, metaVars>>

LibIdle == MemIdle /\ ManIdle /\ MathIdle /\ RevIdle /\ MetaIdle

vars == <<optVars, mapVars, concVars, libVars, restVars>>

Init == MapIdle /\ ConcIdle /\ LibIdle /\ RestIdle /\ OptInit

Next ==
    \/ ApplySeparation /\ UNCHANGED <<mapVars, concVars, libVars, restVars>>
    \/ CreateGraph /\ UNCHANGED <<mapVars, concVars, libVars, restVars>>
    \/ ReturnFixedOrder /\ UNCHANGED <<mapVars, concVars, libVars, restVars>>
    \/ StartPeel /\ UNCHANGED <<mapVars, concVars, libVars, restVars>>
    \/ LayerPeel /\ UNCHANGED <<mapVars, concVars, libVars, restVars>>
    \/ ReturnLayers /\ UNCHANGED <<mapVars, concVars, libVars, restVars>>

Spec == Init /\ [][Next]_vars

FairSpec == Spec /\ WF_vars(Next)

MapperInit == OptIdle /\ ConcIdle /\ LibIdle /\ RestIdle /\ MapInit

MapperNext ==
    \/ BeginRun /\ UNCHANGED <<optVars, concVars, libVars, restVars>>
    \/ CreateKernel /\ UNCHANGED <<optVars, concVars, libVars, restVars>>
    \/ LowerProgram /\ UNCHANGED <<optVars, concVars, libVars, restVars>>
    \/ NextRun /\ UNCHANGED <<optVars, concVars, libVars, restVars>>

MapperSpec == MapperInit /\ [][MapperNext]_vars

ConcurrentInit ==
    /\ OptIdle
    /\ LibIdle /\ RestIdle
    /\ ConcInit
    /\ global_kernel_id_counter = 0
    /\ program_trace = <<>>
    /\ run = 1
    /\ mpc = "idle"
    /\ p_isa_kernels = <<>>
    /\ outputs = <<>>
    /\ kernel_id_start = <<>>
    /\ gen_count = [p \in CachePaths |-> [r \in Runs |-> 0]]
    /\ last_request = NoRequest

ConcurrentNext ==
    \/ \E c \in Callers : CheckCache(c) /\ MapRestUnchanged /\ UNCHANGED <<optVars, libVars, restVars>>
    \/ \E c \in Callers : GeneratorStarts(c) /\ MapRestUnchanged /\ UNCHANGED <<optVars, libVars, restVars>>
    \/ \E c \in Callers : GeneratorEnds(c) /\ MapRestUnchanged /\ UNCHANGED <<optVars, libVars, restVars>>
    \/ \E c \in Callers : Parse(c) /\ MapRestUnchanged /\ UNCHANGED <<optVars, libVars, restVars>>

ConcurrentSpec == ConcurrentInit /\ [][ConcurrentNext]_vars

\* ---- the specifications of the routines looked at on their own ----
KernelInit == OptIdle /\ MapIdle /\ ConcIdle /\ LibIdle /\ LinkIdle /\
              WriteIdle /\ IsoIdle /\ TraceIdle /\ RequestIdle /\ KernInit

KernelNext ==
    \/ CallMapInput
         /\ UNCHANGED <<optVars, mapVars, concVars, libVars, linkVars,
                        writeVars, isoVars, traceVars, requestVars>>
    \/ CallMapOutput
         /\ UNCHANGED <<optVars, mapVars, concVars, libVars, linkVars,
                        writeVars, isoVars, traceVars, requestVars>>
    \/ CallMapImmediate
         /\ UNCHANGED <<optVars, mapVars, concVars, libVars, linkVars,
                        writeVars, isoVars, traceVars, requestVars>>
    \/ CallSetImmediate
         /\ UNCHANGED <<optVars, mapVars, concVars, libVars, linkVars,
                        writeVars, isoVars, traceVars, requestVars>>
    \/ CallSetEnableNamespace
         /\ UNCHANGED <<optVars, mapVars, concVars, libVars, linkVars,
                        writeVars, isoVars, traceVars, requestVars>>
    \/ CallGetMappedInstructions
         /\ UNCHANGED <<optVars, mapVars, concVars, libVars, linkVars,
                        writeVars, isoVars, traceVars, requestVars>>

KernelSpec == KernelInit /\ [][KernelNext]_vars

LinkSpecInit == OptIdle /\ MapIdle /\ ConcIdle /\ LibIdle /\ KernIdle /\
                WriteIdle /\ IsoIdle /\ TraceIdle /\ RequestIdle /\ LinkInit

LinkNext ==
    \/ BuildRegisterMap
         /\ UNCHANGED <<optVars, mapVars, concVars, libVars, kernVars,
                        writeVars, isoVars, traceVars, requestVars>>
    \/ GenerateKernels
         /\ UNCHANGED <<optVars, mapVars, concVars, libVars, kernVars,
                        writeVars, isoVars, traceVars, requestVars>>
    \/ SpliceKernels
         /\ UNCHANGED <<optVars, mapVars, concVars, libVars, kernVars,
                        writeVars, isoVars, traceVars, requestVars>>

LinkSpec == LinkSpecInit /\ [][LinkNext]_vars

WriteSpecInit == OptIdle /\ MapIdle /\ ConcIdle /\ LibIdle /\ KernIdle /\
                 LinkIdle /\ IsoIdle /\ TraceIdle /\ RequestIdle /\ WriteInit

WriteNext ==
    \/ GenerateProgramKernels
         /\ UNCHANGED <<optVars, mapVars, concVars, libVars, kernVars,
                        linkVars, isoVars, traceVars, requestVars>>
    \/ WriteMemFile
         /\ UNCHANGED <<optVars, mapVars, concVars, libVars, kernVars,
                        linkVars, isoVars, traceVars, requestVars>>

WriteSpec == WriteSpecInit /\ [][WriteNext]_vars

IsolateInit == OptIdle /\ MapIdle /\ ConcIdle /\ LibIdle /\ KernIdle /\
               LinkIdle /\ WriteIdle /\ TraceIdle /\ RequestIdle /\ IsoInit

IsolateNext ==
    \/ BuildLocklist
         /\ UNCHANGED <<optVars, mapVars, concVars, libVars, kernVars,
                        linkVars, writeVars, traceVars, requestVars>>
    \/ AdjustVariables
         /\ UNCHANGED <<optVars, mapVars, concVars, libVars, kernVars,
                        linkVars, writeVars, traceVars, requestVars>>
    \/ AdjustInstructions
         /\ UNCHANGED <<optVars, mapVars, concVars, libVars, kernVars,
                        linkVars, writeVars, traceVars, requestVars>>

IsolateSpec == IsolateInit /\ [][IsolateNext]_vars

TraceSpecInit == OptIdle /\ MapIdle /\ ConcIdle /\ LibIdle /\ KernIdle /\
                 LinkIdle /\ WriteIdle /\ IsoIdle /\ RequestIdle /\ TraceInit

TraceNext ==
    \/ ParseInstruction
         /\ UNCHANGED <<optVars, mapVars, concVars, libVars, kernVars,
                        linkVars, writeVars, isoVars, requestVars>>
    \/ WriteInstruction
         /\ UNCHANGED <<optVars, mapVars, concVars, libVars, kernVars,
                        linkVars, writeVars, isoVars, requestVars>>

TraceSpec == TraceSpecInit /\ [][TraceNext]_vars

RequestSpecInit == OptIdle /\ MapIdle /\ ConcIdle /\ LibIdle /\ KernIdle /\
                   LinkIdle /\ WriteIdle /\ IsoIdle /\ TraceIdle /\
                   RequestInit

RequestNext ==
    \/ CreateNew
         /\ UNCHANGED <<optVars, mapVars, concVars, libVars, kernVars,
                        linkVars, writeVars, isoVars, traceVars>>
    \/ RemoveCache
         /\ UNCHANGED <<optVars, mapVars, concVars, libVars, kernVars,
                        linkVars, writeVars, isoVars, traceVars>>

RequestSpec == RequestSpecInit /\ [][RequestNext]_vars

\* ---- end of these specifications ----

(***************************************************************************)
(* Claims about the graph optimizer.                                       *)
(***************************************************************************)
InputsDistinct(instr) ==
    \A x, y \in DOMAIN instr.ins : x # y => instr.ins[x] # instr.ins[y]

\* C1: after duplicate-input separation has run, no instruction other than a
\* copy has two input operands that name the same register (also a
\* three-input instruction whose inputs were all the same register).
C1_NoDuplicateInputs ==
    pc # "combined" =>
        \A k \in DOMAIN combined_instructions :
            combined_instructions[k].name # "copy" => InputsDistinct(combined_instructions[k])

Writers(g, stream, r) == {k \in DOMAIN stream : r \in Range(g[stream[k]].outs)}

WrittenRegs(g) == UNION {Range(g[i].outs) : i \in DOMAIN g}

\* C2: after the optimizer has processed the combined list, every register
\* that is not a program input (every register some instruction writes) is
\* written by exactly one instruction of the emitted stream.
C2_SingleAssignment ==
    pc = "done" =>
        \A r \in WrittenRegs(p_isa_graph) :
            Cardinality(Writers(p_isa_graph, instructions, r)) = 1

Positions(stream, i) == {k \in DOMAIN stream : stream[k] = i}

\* C3: without a fixed order, on an acyclic graph the returned list holds
\* every operation of the graph exactly once, each after every operation that
\* produces one of its inputs.
C3_TopologicalOrder ==
    (pc = "done" /\ ~fixed_order /\ ~Cyclic(p_isa_graph)) =>
        /\ \A i \in DOMAIN p_isa_graph : Cardinality(Positions(instructions, i)) = 1
        /\ Len(instructions) = Len(p_isa_graph)
        /\ \A x, y \in DOMAIN instructions :
              OpEdge(p_isa_graph, instructions[x], instructions[y]) => x < y

\* a returned stream of an acyclic graph in which the peel had to move an
\* instruction in front of an earlier one of the list
C3_Witness ==
    /\ pc = "done" /\ ~fixed_order /\ ~Cyclic(p_isa_graph)
    /\ \E i, j \in DOMAIN p_isa_graph : i > j /\ OpEdge(p_isa_graph, i, j)
    /\ Len(input_layers) >= 2

\* C5: on a graph with a cycle linearization ends with a fatal error: every
\* call without a fixed order terminates, and it returns a list only for an
\* acyclic graph.
C5_CyclicIsFatal ==
    (~fixed_order) =>
        <>(pc = "error" \/ (pc = "done" /\ ~Cyclic(p_isa_graph)))

(***************************************************************************)
(* Claims about mapper runs and the kernel cache.                          *)
(***************************************************************************)
\* C4: the runs of one process over the same trace and arguments that emit a
\* stream start with the same counter values (kernel id, uid) and emit the
\* same stream.
C4_RunsIdentical ==
    \A r1, r2 \in DOMAIN outputs :
        (outputs[r1].exit_code = 0 /\ outputs[r2].exit_code = 0)
            => /\ kernel_id_start[r1] = kernel_id_start[r2]
               /\ outputs[r1] = outputs[r2]

\* the latest operation before x that writes location l, 0 if there is none
Producer(trace, x, l) ==
    LET before == {w \in 1..(x - 1) : \E o \in DOMAIN trace[w].outs : trace[w].outs[o].location = l}
    IN  IF before = {} THEN 0 ELSE CHOOSE w \in before : \A v \in before : v <= w

Shape(operand) == <<operand.num_of_rns_terms, operand.num_of_polynomials>>

ShapeCoherent(trace) ==
    \A x \in DOMAIN trace : \A y \in DOMAIN trace[x].ins :
        LET w == Producer(trace, x, trace[x].ins[y].location)
        IN  w # 0 =>
              \A o \in DOMAIN trace[w].outs :
                 trace[w].outs[o].location = trace[x].ins[y].location
                    => Shape(trace[w].outs[o]) = Shape(trace[x].ins[y])

\* C6: a run whose trace has a consumer reading a register with another shape
\* than its producer declared does not emit a stream and exit with 0.
C6_ShapeMismatchReported ==
    \A r \in DOMAIN outputs : outputs[r].exit_code = 0 => ShapeCoherent(program_trace)

TotalGenerated(p) ==
    LET RECURSIVE Sum(_)
        Sum(r) == IF r = 0 THEN 0 ELSE gen_count[p][r] + Sum(r - 1)
    IN  Sum(MaxRuns)

\* each request: with the cache in use the generator runs only if no entry
\* exists; with the cache disabled it runs on every request
RequestFollowsCache ==
    last_request # NoRequest =>
        IF arguments.use_kernel_cache
        THEN last_request.invoked <=> last_request.entry_before = "absent"
        ELSE last_request.invoked

\* C7 as stated: with the cache in use the generator runs at most once per
\* key, over all the requests of the process.
C7_AtMostOncePerKey ==
    /\ RequestFollowsCache
    /\ arguments.use_kernel_cache => \A p \in CachePaths : TotalGenerated(p) <= 1

\* C7 amended: with the cache in use the generator runs at most once per key
\* in a run, and at most once over all runs when the cache directory is not
\* removed at the end of a run (remove_cache).
C7_AtMostOnceWhileKept ==
    /\ RequestFollowsCache
    /\ arguments.use_kernel_cache =>
          \A p \in CachePaths :
             /\ \A r \in Runs : gen_count[p][r] <= 1
             /\ ~arguments.remove_cache => TotalGenerated(p) <= 1

\* a request served from an entry that an earlier request generated
C7_Witness ==
    /\ arguments.use_kernel_cache
    /\ last_request # NoRequest
    /\ last_request.entry_before = "complete"
    /\ ~last_request.invoked
    /\ ~last_request.failed
    /\ TotalGenerated(last_request.path) = 1

\* C9: with the cache in use, a request that finds an entry the parser cannot
\* read runs the generator again, and fails only if that generator run fails.
C9_BadEntryRegenerated ==
    (arguments.use_kernel_cache /\ last_request.entry_before = "partial")
        => /\ last_request.invoked
           /\ last_request.rc = 0 => ~last_request.failed

\* C10: a request whose generator run exits non-zero fails, the run exits
\* with 1, and the file of the key is not left in the cache.
C10_GeneratorFailureFails ==
    (last_request.invoked /\ last_request.rc # 0)
        => /\ last_request.failed
           /\ Len(outputs) >= last_request.run
           /\ outputs[last_request.run].exit_code = 1
           /\ cache_files[last_request.path] = "absent"

(***************************************************************************)
(* Claim about processes sharing the cache directory.                      *)
(***************************************************************************)
\* C8: with the cache in use, callers that request one key concurrently make
\* the generator run exactly once for the key, and no caller parses the file
\* while another caller's generator is still writing it.
C8_GeneratorOncePerKey ==
    arguments.use_kernel_cache =>
        /\ \A p \in CachePaths : generator_runs[p] <= 1
        /\ \A c \in Callers :
              callers[c].pc \in {"done", "failed"}
                  => generator_runs[createKernelFilepath(callers[c].op)] = 1
        /\ \A c \in Callers :
              ~(callers[c].read.content = "partial" /\ callers[c].read.during_write)

(***************************************************************************)
(* The memory manifest on its own.                                         *)
(***************************************************************************)
MemSpecInit == OptIdle /\ MapIdle /\ ConcIdle /\ ManIdle /\ MathIdle /\ RevIdle /\ MetaIdle /\ RestIdle /\ MemInit

MemSpecNext ==
    \/ GenerateMemFile /\ UNCHANGED <<optVars, mapVars, concVars, manVars, mathVars, revVars, metaVars, restVars>>

MemSpec == MemSpecInit /\ [][MemSpecNext]_vars

\* C11: in the memory manifest written for any instruction graph (also one in
\* which a label occurs among the inputs and the outputs, or more than once)
\* the slot numbers are strictly increasing from line to line, so no slot
\* appears on two lines.
C11_SlotsStrictlyIncreasing ==
    \A i, j \in DOMAIN memory_file :
        i < j => memory_file[i].slot < memory_file[j].slot

(***************************************************************************)
(* The manifest parser and writer on their own.                            *)
(***************************************************************************)
ManifestInit == OptIdle /\ MapIdle /\ ConcIdle /\ MemIdle /\ MathIdle /\ RevIdle /\ MetaIdle /\ RestIdle /\ ManInit

ManifestNext ==
    \/ ParseManifest /\ UNCHANGED <<optVars, mapVars, concVars, memVars, mathVars, revVars, metaVars, restVars>>
    \/ GenerateManifest /\ UNCHANGED <<optVars, mapVars, concVars, memVars, mathVars, revVars, metaVars, restVars>>

ManifestSpec == ManifestInit /\ [][ManifestNext]_vars

EqCount(line) == Cardinality({i \in DOMAIN line : line[i] = "="})

HeaderText(line) == Len(line) >= 3 /\ line[1] = "[" /\ line[Len(line)] = "]"

EntryText(line) ==
    /\ EqCount(line) = 1
    /\ line[1] # "=" /\ line[Len(line)] # "="
    /\ ~HeaderText(line)

\* the section a line of a text stands under: the name of the last header
\* before it
SectionOf(text, i) ==
    LET h == CHOOSE h \in 1..(i - 1) :
                 /\ HeaderText(trim(text[h]))
                 /\ \A g \in (h + 1)..(i - 1) : ~HeaderText(trim(text[g]))
    IN  SubSeq(trim(text[h]), 2, Len(trim(text[h])) - 1)

InSection(text, i) == \E h \in 1..(i - 1) : HeaderText(trim(text[h]))

KeyText(line) == SubSeq(line, 1, FirstEq(line) - 1)

ValueText(line) == SubSeq(line, FirstEq(line) + 1, Len(line))

\* what a manifest text says: its sections, and its key=value entries with the
\* section each stands under, blanks left out
SectionsOfText(text) ==
    {SubSeq(trim(text[i]), 2, Len(trim(text[i])) - 1) :
        i \in {h \in DOMAIN text : HeaderText(trim(text[h]))}}

EntriesOfText(text) ==
    {<<SectionOf(text, i), KeyText(trim(text[i])), ValueText(trim(text[i]))>> :
        i \in {e \in DOMAIN text : EntryText(trim(text[e])) /\ InSection(text, e)}}

\* a valid manifest text: sections in brackets with key=filename lines under
\* them and nothing else, no key twice under one section name
ValidManifest(text) ==
    /\ text # <<>>
    /\ HeaderText(trim(text[1]))
    /\ \A i \in DOMAIN text : HeaderText(trim(text[i])) \/ EntryText(trim(text[i]))
    /\ \A i, j \in DOMAIN text :
          (/\ i < j
           /\ EntryText(trim(text[i])) /\ EntryText(trim(text[j]))
           /\ SectionOf(text, i) = SectionOf(text, j)
           /\ KeyText(trim(text[i])) = KeyText(trim(text[j])))
              => ValueText(trim(text[i])) = ValueText(trim(text[j]))

\* C12: for a valid manifest text, parse_manifest followed by
\* generate_manifest writes a manifest with the same sections and the same
\* key=value entries under each section as the original, up to blanks and
\* order: no key is lost, added or changed.
C12_RoundTripKeepsManifest ==
    (man_pc = "generated" /\ ValidManifest(manifest_text)) =>
        /\ SectionsOfText(generated_text) = SectionsOfText(manifest_text)
        /\ EntriesOfText(generated_text) = EntriesOfText(manifest_text)

\* C13: parse_manifest stores no entry for a line inside a section that,
\* blanks removed, has no '=' or more than one '='.
C13_MalformedLinesSkipped ==
    man_pc \in {"parsed", "generated"} =>
        \A i \in stored_lines : EqCount(trim(manifest_text[i])) = 1

(***************************************************************************)
(* The word arithmetic on its own.                                         *)
(***************************************************************************)
MathSpecInit == OptIdle /\ MapIdle /\ ConcIdle /\ MemIdle /\ ManIdle /\ RevIdle /\ MetaIdle /\ RestIdle /\ MathInit

MathSpecNext ==
    \/ CallAddUintMod /\ UNCHANGED <<optVars, mapVars, concVars, memVars, manVars, revVars, metaVars, restVars>>
    \/ CallMultiplyUintMod /\ UNCHANGED <<optVars, mapVars, concVars, memVars, manVars, revVars, metaVars, restVars>>
    \/ CallTryInvertUintMod /\ UNCHANGED <<optVars, mapVars, concVars, memVars, manVars, revVars, metaVars, restVars>>
    \/ CallMontgomeryRoundTrip /\ UNCHANGED <<optVars, mapVars, concVars, memVars, manVars, revVars, metaVars, restVars>>
    \/ CallMontgomeryMul /\ UNCHANGED <<optVars, mapVars, concVars, memVars, manVars, revVars, metaVars, restVars>>
    \/ CallNegInvT /\ UNCHANGED <<optVars, mapVars, concVars, memVars, manVars, revVars, metaVars, restVars>>

MathSpec == MathSpecInit /\ [][MathSpecNext]_vars

IsPrime(n) == n >= 2 /\ \A d \in 2..(n - 1) : n % d # 0

RECURSIVE Gcd(_, _)
Gcd(a, b) == IF b = 0 THEN a ELSE Gcd(b, a % b)

\* C14: for every prime modulus of the word type and every x below it,
\* converting x to Montgomery form and back gives x.
C14_MontgomeryRoundTrip ==
    (called = "convert_to_normal" /\ IsPrime(modulus) /\ operand1 < modulus) =>
        returned = [status |-> "returned", value |-> operand1]

\* C15: for every modulus and every value with gcd(value, modulus) = 1,
\* try_invert_uint_mod succeeds and the product of the value and the returned
\* inverse, taken with multiply_uint_mod, is 1.
C15_InverseMultipliesToOne ==
    (called = "try_invert_uint_mod" /\ Gcd(operand1, modulus) = 1) =>
        /\ returned.status = "true"
        /\ modulus # 0
        /\ multiply_uint_mod(operand1, returned.value, modulus) = 1

\* C16: for every modulus that is not zero and all operands below it,
\* multiply_uint_mod returns the product of the operands modulo the modulus.
C16_MultiplyIsProductModulo ==
    (called = "multiply_uint_mod" /\ operand1 < modulus /\ operand2 < modulus) =>
        returned = [status |-> "returned", value |-> (operand1 * operand2) % modulus]

\* C17: for every modulus and all operands below it, add_uint_mod returns the
\* sum of the operands modulo the modulus, also when the sum does not fit in
\* the word.
C17_AddIsSumModulo ==
    (called = "add_uint_mod" /\ operand1 < modulus /\ operand2 < modulus) =>
        returned = [status |-> "returned", value |-> (operand1 + operand2) % modulus]

(***************************************************************************)
(* reverse_bits on its own.                                                *)
(***************************************************************************)
ReverseInit == OptIdle /\ MapIdle /\ ConcIdle /\ MemIdle /\ ManIdle /\ MathIdle /\ MetaIdle /\ RestIdle /\ RevInit

ReverseNext ==
    \/ ReverseOnce /\ UNCHANGED <<optVars, mapVars, concVars, memVars, manVars, mathVars, metaVars, restVars>>
    \/ ReverseAgain /\ UNCHANGED <<optVars, mapVars, concVars, memVars, manVars, mathVars, metaVars, restVars>>

ReverseSpec == ReverseInit /\ [][ReverseNext]_vars

\* x & ((1 << b) - 1)
LowBits(x, b) == [i \in BitIndex |-> IF i < b THEN x[i] ELSE 0]

\* C18: for every 32-bit x and every bit count b from 0 to 32, reversing the
\* low b bits twice gives the low b bits of x:
\* reverse_bits(reverse_bits(x, b), b) = x & ((1 << b) - 1).
C18_ReverseTwiceIsLowBits ==
    rb_pc = "twice" => restored = LowBits(rb_operand, bit_count)

\* a word with bits set below and above the bit count was reversed twice, and
\* the first reversal changed it
C18_Witness ==
    /\ rb_pc = "twice"
    /\ bit_count = 5
    /\ \E i \in BitIndex : i < bit_count /\ rb_operand[i] = 1
    /\ \E i \in BitIndex : i >= bit_count /\ rb_operand[i] = 1
    /\ reversed # LowBits(rb_operand, bit_count)
    /\ reversed # Zero32

(***************************************************************************)
(* Metadata extraction on its own.                                         *)
(***************************************************************************)
MetadataInit ==
    OptIdle /\ MapIdle /\ ConcIdle /\ MemIdle /\ ManIdle /\ MathIdle /\ RevIdle /\ RestIdle /\ MetaInit

MetadataNext ==
    \/ ExtractMetadataPolys
         /\ UNCHANGED <<optVars, mapVars, concVars, memVars, manVars, mathVars, revVars, restVars>>
    \/ ExtractMetadataImmediates
         /\ UNCHANGED <<optVars, mapVars, concVars, memVars, manVars, mathVars, revVars, restVars>>

MetadataSpec == MetadataInit /\ [][MetadataNext]_vars

\* C19: for a context with a single RNS prime, of either supported scheme,
\* metadata extraction completes without error and its output contains
\* psi_default_0, ipsi_default_0, iN_0 and R2_0.
C19_SinglePrimeExtracts ==
    (meta_pc = "immediates" /\ context.key_rns_num = 1) =>
        /\ meta_status = "returned"
        /\ {"psi_default_0", "ipsi_default_0"} \subseteq sym_poly_map
        /\ {"iN_0", "R2_0"} \subseteq sym_immediate_map

(***************************************************************************)
(* Claim about the fixed instruction order. The lists hold MULI with the   *)
(* immediate in either place, MAC with the accumulator in any place or in  *)
(* none, and copies.                                                       *)
(***************************************************************************)
AdjustableInstrs ==
    {Instr("muli", <<o>>, <<x, m>>) : o \in InRegs, x \in InRegs, m \in Immediates}
    \cup {Instr("muli", <<o>>, <<m, x>>) : o \in InRegs, x \in InRegs, m \in Immediates}
    \cup {Instr("mac", <<"a">>, <<x, y, z>>) : x \in Regs, y \in Regs, z \in InRegs}
    \cup {Instr("copy", <<"c">>, <<x>>) : x \in InRegs}

FixedOrderInit ==
    /\ MapIdle /\ ConcIdle /\ LibIdle /\ RestIdle
    /\ pc = "combined"
    /\ fixed_order \in BOOLEAN
    /\ combined_instructions \in SeqsUpTo(AdjustableInstrs, MaxInstrs)
    /\ p_isa_graph = <<>>
    /\ consumable = {}
    /\ input_layers = <<>>
    /\ instructions = <<>>

FixedOrderSpec == FixedOrderInit /\ [][Next]_vars

\* the instruction at every place of the returned stream
Returned == [k \in DOMAIN instructions |-> p_isa_graph[instructions[k]]]

ShowsLatest(original, mapped) ==
    original.root \in DOMAIN recorded =>
        mapped = Loc(recorded[original.root], original.rest)

\* C21: the list a getMappedInstructions call returns shows, for every
\* boundary and immediate symbol, the name of the latest rename recorded for
\* it by mapInput, mapOutput, mapImmediate or setImmediate, also for a rename
\* recorded after an earlier getMappedInstructions call.
C21_ReturnedListShowsRenames ==
    last_call = "getMappedInstructions" =>
        \A i \in DOMAIN kernel.instructions :
            /\ \A x \in DOMAIN kernel.instructions[i].ins :
                  ShowsLatest(kernel.instructions[i].ins[x], returned_list[i].ins[x])
            /\ \A x \in DOMAIN kernel.instructions[i].outs :
                  ShowsLatest(kernel.instructions[i].outs[x], returned_list[i].outs[x])

(***************************************************************************)
(* C22: registers local to a kernel after namespacing.                     *)
(***************************************************************************)
\* the names kernel y's list gives to the operands whose root is (boundary)
\* or is not (local) a positional input or output name of the kernel
NamesIn(y, boundary) ==
    LET k     == linked_kernels[y]
        names == naming_map(k, linked_trace[y], linked_register_map)
    IN  UNION {
          {kernel_lists[y][i].outs[j] : j \in {j \in DOMAIN k.instructions[i].outs :
                (k.instructions[i].outs[j].root \in DOMAIN names) = boundary}}
          \cup
          {kernel_lists[y][i].ins[j] : j \in {j \in DOMAIN k.instructions[i].ins :
                (k.instructions[i].ins[j].root \in DOMAIN names) = boundary}}
          : i \in DOMAIN k.instructions}

\* C22: with namespacing enabled, a register local to one kernel of the
\* combined list has a name no register of another kernel has, and no
\* boundary register of any kernel has.
C22_LocalRegistersApart ==
    (lpc = "spliced" /\ apply_namespacing) =>
        \A y \in DOMAIN kernel_lists : \A n \in NamesIn(y, FALSE) :
            /\ \A other \in DOMAIN kernel_lists \ {y} :
                   n \notin NamesIn(other, FALSE) \cup NamesIn(other, TRUE)
            /\ \A any \in DOMAIN kernel_lists : n \notin NamesIn(any, TRUE)

(***************************************************************************)
(* C24: the program-wide register map.                                     *)
(***************************************************************************)
\* C24: once the register map of a program is built, every location of the
\* trace has one non-empty program-wide name and two different locations
\* never have the same name.
C24_RegisterMapInjective ==
    lpc \in {"mapped", "kernels", "spliced"} =>
        /\ DOMAIN linked_register_map = ReadLocs(linked_trace) \cup WrittenLocs(linked_trace)
        /\ \A l \in DOMAIN linked_register_map : linked_register_map[l] # ""
        /\ \A l1 \in DOMAIN linked_register_map : \A l2 \in DOMAIN linked_register_map :
               l1 # l2 => linked_register_map[l1] # linked_register_map[l2]

(***************************************************************************)
(* C25: the twid and ones lines of the manifest of a program.              *)
(***************************************************************************)
LargestRns(rns_counts) ==
    CHOOSE n \in Range(rns_counts) : \A k \in Range(rns_counts) : k <= n

CeilDiv64(n) == (n + 63) \div 64

LinesOf(file, what) == Cardinality({k \in DOMAIN file : file[k].what = what})

\* C25: the manifest written for a program whose largest RNS count is
\* max_rns has 8 * ceil(max_rns / 64) twid lines and ceil(max_rns / 64) ones
\* lines.
C25_TwidAndOnesLines ==
    wpc = "written" =>
        /\ LinesOf(mem_file, "twid") = 8 * CeilDiv64(LargestRns(trace_rns))
        /\ LinesOf(mem_file, "ones") = CeilDiv64(LargestRns(trace_rns))

(***************************************************************************)
(* C26: the operands of a MAC after the instruction adjustment.            *)
(***************************************************************************)
MacNodes == {k \in DOMAIN iso_graph : iso_graph[k].name = "mac"}

HasAccumulator(instr) == instr.outs[1] \in Range(instr.ins)

\* the labels of the inputs of instruction k other than the accumulator, in
\* the order of the instruction as given
OtherInputs(k) ==
    LET node == Relabelled(iso_graph[k], labels)
    IN  SelectSeq(node.ins, LAMBDA l : l # node.outs[1])

\* C26: the adjustment of a MAC puts the input that is the output register
\* at operand 0 and leaves the other two inputs at operands 1 and 2 in the
\* order they had; it fails exactly when some MAC has no input that is its
\* output register.
C26_MacAccumulatorFirst ==
    /\ iso_pc \in {"returned", "thrown"} =>
           ((iso_pc = "thrown") = (\E k \in MacNodes : ~HasAccumulator(iso_graph[k])))
    /\ iso_pc = "returned" =>
           \A k \in MacNodes :
               /\ adjusted[k].name = "mac"
               /\ adjusted[k].outs = Relabelled(iso_graph[k], labels).outs
               /\ adjusted[k].ins[1] = adjusted[k].outs[1]
               /\ <<adjusted[k].ins[2], adjusted[k].ins[3]>> = OtherInputs(k)

\* a MAC given with its accumulator as the last input has been adjusted
C26_Witness ==
    /\ iso_pc = "returned"
    /\ \E k \in MacNodes :
          /\ iso_graph[k].ins[3] = iso_graph[k].outs[1]
          /\ adjusted[k].ins # iso_graph[k].ins
          /\ adjusted[k].ins[1] = "a"

\* a MAC without accumulator has made the adjustment fail
C26_WitnessThrown == iso_pc = "thrown"

(***************************************************************************)
(* C27: the registers variable isolation leaves alone.                     *)
(***************************************************************************)
OperandsOf(instr) == Range(instr.ins) \cup Range(instr.outs)

WrittenRegisters == UNION {Range(iso_graph[k].outs) : k \in DOMAIN iso_graph}

\* registers some instruction writes and none reads
IsoProgramOutputs == {r \in WrittenRegisters : RegisterOutDeg(iso_graph, r) = 0}

ReadByMac == UNION {Range(iso_graph[k].ins) : k \in MacNodes}

WrittenByMac == UNION {Range(iso_graph[k].outs) : k \in MacNodes}

\* register r has its name of the given instructions in every instruction
\* that reads or writes it
KeepsName(r) ==
    /\ labels[r] = r
    /\ \A k \in DOMAIN iso_graph :
           r \in OperandsOf(iso_graph[k]) => r \in OperandsOf(adjusted[k])

\* C27: after isolateGraphVariables every program output and every register
\* a MAC reads has its original name in every instruction that reads or
\* writes it, whatever the order of the visits.
C27_OutputsAndMacInputsKeepNames ==
    iso_pc = "returned" => \A r \in IsoProgramOutputs \cup ReadByMac : KeepsName(r)

\* C27 (as the code has it): after isolateGraphVariables every program
\* output and every register a MAC writes (its accumulator) has its original
\* name in every instruction that reads or writes it, whatever the order of
\* the visits.
C27_OutputsAndMacOutputsKeepNames ==
    iso_pc = "returned" => \A r \in IsoProgramOutputs \cup WrittenByMac : KeepsName(r)

\* an isolation that has renamed a register read by a MAC and has left the
\* register the MAC writes alone
C27_Witness ==
    /\ iso_pc = "returned"
    /\ \E r \in ReadByMac : labels[r] # r
    /\ \E r \in WrittenByMac : labels[r] = r

\* an isolation that has renamed a register and has left a program output
\* alone
C27_WitnessOutput ==
    /\ iso_pc = "returned"
    /\ \E r \in DOMAIN labels : labels[r] # r
    /\ \E r \in IsoProgramOutputs : labels[r] = r

(***************************************************************************)
(* C28: the operands of a binary trace instruction, read and written back. *)
(***************************************************************************)
SameShape(polynomial, operand) ==
    /\ polynomial.register_name = operand.symbol_name
    /\ polynomial.num_of_rns_terms = operand.num_rns
    /\ polynomial.num_of_polynomials = operand.order

\* C28: every operand of the parsed operation has the num_rns and the order
\* of its record in the trace instruction, and the instruction written back
\* has the original num_rns and order for every source and destination.
C28_OperandsRoundTrip ==
    /\ tpc \in {"parsed", "written"} =>
          /\ Len(poly_operation.output_locations) = Len(instr_pb.dests)
          /\ Len(poly_operation.input_locations) = Len(instr_pb.srcs)
          /\ \A k \in DOMAIN instr_pb.dests :
                 SameShape(poly_operation.output_locations[k], instr_pb.dests[k])
          /\ \A k \in DOMAIN instr_pb.srcs :
                 SameShape(poly_operation.input_locations[k], instr_pb.srcs[k])
    /\ tpc = "written" =>
          /\ instruction_out.dests = instr_pb.dests
          /\ instruction_out.srcs = instr_pb.srcs

(***************************************************************************)
(* C29: montgomeryMul.                                                     *)
(***************************************************************************)
\* C29: for an odd modulus m and a, b below m, montgomeryMul(a, b, m) is the
\* value below m whose product with R (2^32 in the code, 2^WordBits here)
\* is a * b modulo m.
C29_MontgomeryMulIsProduct ==
    (called = "montgomeryMul" /\ modulus % 2 = 1 /\ operand1 < modulus
        /\ operand2 < modulus) =>
        /\ returned.value < modulus
        /\ (returned.value * montgomery_R) % modulus = (operand1 * operand2) % modulus

(***************************************************************************)
(* C30: the immediate neg_inv_t_{pt}_mod_q_i_{i} of a BGV context.         *)
(***************************************************************************)
\* C30: for an odd prime q_i and a plaintext modulus t with an inverse
\* modulo q_i, the immediate is the Montgomery form of the negation modulo
\* q_i of that inverse: ((q_i - t^-1) mod q_i) * R mod q_i.
C30_NegInvTIsNegatedInverse ==
    (called = "neg_inv_t" /\ returned.status = "returned" /\ modulus % 2 = 1) =>
        \A inverse \in 0..(modulus - 1) :
            (operand1 * inverse) % modulus = 1 =>
                returned.value
                    = (((modulus - inverse) % modulus) * montgomery_R) % modulus

(***************************************************************************)
(* C23: cache files and generator inputs.                                  *)
(***************************************************************************)
\* C23: two requests served with different generator input never have the
\* same cache file, and the file parsed for a request was printed for the
\* generator input of that request.
C23_CacheFileTellsRequestsApart ==
    /\ \A k1 \in DOMAIN parsed_from : \A k2 \in DOMAIN parsed_from :
           genKernInput(requests[k1]) # genKernInput(requests[k2])
               => createKernelFilepathOf(requests[k1]) # createKernelFilepathOf(requests[k2])
    /\ \A k \in DOMAIN parsed_from : parsed_from[k] = genKernInput(requests[k])

=============================================================================
